---- MODULE Spec2Model ----
(***************************************************************************)
(* The meteorological data-acquisition pipeline of megha_netra_advanced.py *)
(* as a state machine: Downloader, Validator, Pipeline and its four fetch  *)
(* strategies, Optimizer.                                                  *)
(*                                                                         *)
(* Sizes are bytes, times are whole seconds.  A file on disk is a record   *)
(* (its content identity, the bytes present, the bytes of the complete     *)
(* content, the provenance stamp); external services (HTTP servers, the    *)
(* CDS API, S3, the file system) answer nondeterministically.              *)
(***************************************************************************)
EXTENDS Integers, Sequences, FiniteSets, TLC

VARIABLES
  disk,              \* the data directory: path -> file
  remote,            \* what the remote services and the clock can answer in this run
  globals,           \* the names bound in the module's global namespace
  pool,              \* the worker threads that may run calls
  dl,                \* per worker: the Downloader.download call in progress
  call,              \* per worker: the Pipeline.process call in progress
  ncalls,            \* process calls begun so far
  faults,            \* external changes of the data directory so far
  cache,             \* Pipeline.cache
  transaction_log,   \* Pipeline.transaction_log
  download_metrics,  \* Pipeline.download_metrics
  notes,             \* what Notifier.notify has emitted
  bucket,            \* the artifacts uploaded to the S3 bucket
  optimizer,         \* the Optimizer and the last answer of predict_workers
  returned,          \* the last direct call of a function: arguments and result
  run                \* the call of download_all

vars == <<disk, remote, globals, pool, dl, call, ncalls, faults, cache,
          transaction_log, download_metrics, notes, bucket, optimizer,
          returned, run>>

pipeVars == <<call, ncalls, faults, cache, transaction_log, download_metrics,
              notes, bucket>>

-----------------------------------------------------------------------------
(* Bounds of the model *)

MaxSize == 6
MaxChunk == 3
MaxThreads == 3
MaxWorkers == 3
MaxCalls == 2
MaxFaults == 1
MaxUpdates == 3
MaxTimes == 2
MaxWords == 2
MaxRunCalls == 4

-----------------------------------------------------------------------------
(* Arithmetic helpers *)

Max(a, b) == IF a >= b THEN a ELSE b

Min(a, b) == IF a <= b THEN a ELSE b

-----------------------------------------------------------------------------
(* Configuration (DEFAULT_CONFIG) and paths *)

\* a configuration that knows every id it is asked for
DatasetsAny == {"era5", "modis_snow", "goes16", "gpm", "unknown"}

\* list(DEFAULT_CONFIG['datasets'])
Datasets == {"era5", "modis_snow", "goes16", "gpm"}

\* the calendar months of the calls: a month only names the artifact
Months == {1}

Workers == 1..MaxWorkers

\* DEFAULT_CONFIG['datasets'][d]['format']
Format(d) ==
  CASE d = "era5" -> "netcdf"
    [] d = "modis_snow" -> "hdf"
    [] d = "goes16" -> "netcdf"
    [] OTHER -> "hdf5"

\* the extension each download_<dataset> method hard-codes in its output_file
StrategyExt(d) ==
  CASE d = "era5" -> "nc"
    [] d = "modis_snow" -> "hdf"
    [] d = "goes16" -> "nc"
    [] OTHER -> "hdf5"

\* Pipeline.process: f'{DATA_DIR}/{dataset}_{date.year}{date.month:02d}.{format}'
OutputFile(d, m) == [ds |-> d, month |-> m, ext |-> Format(d)]

\* download_<dataset>: f'{DATA_DIR}/<dataset>_{date.year}{date.month:02d}.<ext>'
StrategyFile(d, m) == [ds |-> d, month |-> m, ext |-> StrategyExt(d)]

\* Downloader.download: temp_file = output_file + '.tmp'
TempFile(p) == [p EXCEPT !.ext = IF p.ext = "hdf" THEN "hdf.tmp" ELSE "hdf5.tmp"]

NoPath == [ds |-> "none", month |-> 0, ext |-> ""]

\* the paths Downloader.download is called with (modis_snow and gpm)
DownloadPaths == {StrategyFile(d, m) : d \in {"modis_snow", "gpm"}, m \in Months}

PathsOf(months) ==
  {OutputFile(d, m) : d \in Datasets, m \in months}
    \cup {StrategyFile(d, m) : d \in Datasets, m \in months}
    \cup {TempFile(StrategyFile(d, m)) : d \in {"modis_snow", "gpm"}, m \in months}

Paths == PathsOf(Months)

\* start_date = end_date.replace(year=end_date.year - 5)
YearsBack == 5

\* the paths of a run of download_all: the artifact of its n-th date is named
\* by n
RunPaths == PathsOf(1..(12 * YearsBack + 1))

\* the paths of the dates for which a run on several datasets is followed
FollowedPaths == PathsOf(1..(MaxRunCalls \div 2))

-----------------------------------------------------------------------------
(* Files *)

NoFile ==
  [exists |-> FALSE, body |-> "none", len |-> 0, total |-> 0, stamp |-> 0,
   readable |-> FALSE]

\* a file being assembled: len of total bytes present, content not yet named
PartFile(n, t) ==
  [exists |-> TRUE, body |-> "part", len |-> n, total |-> t, stamp |-> 0,
   readable |-> TRUE]

\* a complete file of content b
WholeFile(b, n) ==
  [exists |-> TRUE, body |-> b, len |-> n, total |-> n, stamp |-> 0,
   readable |-> TRUE]

Complete(f) == f.exists /\ f.len = f.total

-----------------------------------------------------------------------------
(* Downloader.download *)

\* @retry(stop=stop_after_attempt(3), ...)
StopAfterAttempt == 3

\* download's default chunk_size
DefaultChunkSize == 8192

\* download's default num_threads
DefaultNumThreads == 4

\* a chunk size that takes no account of num_threads
ChunkSizeAsked(chunk_size, file_size, num_threads) == chunk_size

\* chunk_size = max(chunk_size, file_size // num_threads)
ChunkSize(chunk_size, file_size, num_threads) ==
  Max(chunk_size, file_size \div num_threads)

\* ranges whose end is one byte too far: min(i + chunk_size, file_size - 1)
RangesOverlap(file_size, chunk_size) ==
  [k \in 1..((file_size + chunk_size - 1) \div chunk_size) |->
     <<(k - 1) * chunk_size,
       Min((k - 1) * chunk_size + chunk_size, file_size - 1)>>]

\* ranges = [(i, min(i + chunk_size - 1, file_size - 1))
\*           for i in range(0, file_size, chunk_size)]
Ranges(file_size, chunk_size) ==
  [k \in 1..((file_size + chunk_size - 1) \div chunk_size) |->
     <<(k - 1) * chunk_size,
       Min((k - 1) * chunk_size + chunk_size - 1, file_size - 1)>>]

\* `except Exception as e: ... return False`: what the body of download makes
\* of an exception raised inside it
DownloadExcept == "false"

\* tenacity's retry: a call that raised is run again until the attempt limit,
\* then the error is raised to the caller; a call that returned is final
RetryDecision(outcome, attempt) ==
  IF outcome = "raise" /\ attempt < StopAfterAttempt THEN "retry" ELSE outcome

IdleDl ==
  [pc |-> "idle", output_file |-> NoPath, chunk_size |-> 0, num_threads |-> 0,
   file_size |-> 0, ranges |-> <<>>, got |-> <<>>, written |-> 0,
   attempt |-> 0, result |-> "none", caller |-> "none", asked |-> 0,
   errors |-> 0, last |-> 0, wrote |-> <<>>, server |-> "none",
   body_len |-> 0]

\* temp_file = output_file + '.tmp', the name the chunks are written under
temp_file(d) == TempFile(d.output_file)

\* entry of download(url, output_file, auth, chunk_size, num_threads)
DlEnter(p, cs, nt, who) ==
  [IdleDl EXCEPT !.pc = "head", !.output_file = p, !.chunk_size = cs,
                 !.num_threads = nt, !.attempt = 1, !.caller = who,
                 !.asked = cs]

\* the body of download ended at attempt d.attempt with `outcome`
DlEnd(d, outcome) ==
  LET r == RetryDecision(outcome, d.attempt)
  IN IF r = "retry"
       THEN [d EXCEPT !.pc = "head", !.file_size = 0, !.ranges = <<>>,
                      !.got = <<>>, !.written = 0, !.attempt = @ + 1,
                      !.chunk_size = d.asked, !.last = 0, !.wrote = <<>>,
                      !.server = "none", !.body_len = 0]
       ELSE [d EXCEPT !.pc = "done", !.result = r, !.ranges = <<>>,
                      !.got = <<>>, !.written = 0, !.last = 0,
                      !.wrote = <<>>, !.server = "none", !.body_len = 0]

\* an exception was raised in the body of download
DlRaise(d) == DlEnd([d EXCEPT !.errors = @ + 1], DownloadExcept)

\* a direct call of Downloader.download by the owner of the data directory
download(w) ==
  /\ w \in pool
  /\ dl[w].pc = "idle"
  /\ \E p \in DownloadPaths, cs \in 1..MaxChunk, nt \in 1..MaxThreads :
       dl' = [dl EXCEPT ![w] = DlEnter(p, cs, nt, "direct")]
  /\ UNCHANGED <<disk, remote, globals, pool, pipeVars, optimizer, returned, run>>

\* what a request to a remote service, or an operation on the local files, can
\* come to in a run: it succeeds, it raises, or (a listing) it holds no entry
Answers == {"ok", "error", "empty"}

\* the ways a server answers a request with a Range header: the bytes asked
\* for (206), the first byte only before the connection closes, or the whole
\* body (200, the header ignored)
Servers == {"range", "short", "whole"}

\* r.raise_for_status(); return r.content: the number of bytes that arrive for
\* the range r of a body of body_len bytes, -1 when the status is an error
\* (416, the range starts beyond the body)
Served(r, body_len, how) ==
  CASE how = "whole" -> body_len
    [] how = "short" -> IF r[1] < body_len THEN 1 ELSE 0 - 1
    [] OTHER -> IF r[1] < body_len
                  THEN Min(r[2], body_len - 1) - r[1] + 1
                  ELSE 0 - 1

\* response = self.session.head(url); file_size = int(content-length or 0);
\* the body the server goes on to serve has file_size bytes or fewer
download_head(w) ==
  /\ dl[w].pc = "head"
  /\ \/ /\ "error" \in remote.answers
        /\ dl' = [dl EXCEPT ![w] = DlRaise(@)]
     \/ \E n \in remote.sizes, less \in remote.lag, how \in remote.serves :
          /\ n = 0 => (less = 0 /\ how = "range")
          /\ less > 0 => (how = "range" /\ n > 1)
          /\ dl' = [dl EXCEPT ![w] =
                      IF n = 0
                        THEN DlEnd(@, "false")
                        ELSE LET c == ChunkSize(@.chunk_size, n, @.num_threads)
                                 rs == Ranges(n, c)
                             IN [@ EXCEPT !.pc = "fetch", !.file_size = n,
                                          !.chunk_size = c, !.ranges = rs,
                                          !.got = [k \in DOMAIN rs |-> "pending"],
                                          !.server = how,
                                          !.body_len = n - less]]
  /\ UNCHANGED <<disk, remote, globals, pool, pipeVars, optimizer, returned, run>>

\* download_chunk(start, end) on one of the num_threads pool threads: the pool
\* starts the ranges in index order, at most num_threads at a time
download_chunk(w) ==
  /\ dl[w].pc = "fetch"
  /\ \E k \in DOMAIN dl[w].got, r \in {"ok", "err"} :
       /\ dl[w].got[k] = "pending"
       /\ Cardinality({j \in 1..(k - 1) : dl[w].got[j] = "pending"}) < dl[w].num_threads
       /\ r = "ok" => Served(dl[w].ranges[k], dl[w].body_len, dl[w].server) >= 0
       /\ r = "err" =>
            \/ "error" \in remote.answers
            \/ Served(dl[w].ranges[k], dl[w].body_len, dl[w].server) < 0
       /\ dl' = [dl EXCEPT ![w].got[k] = r, ![w].last = k]
  /\ UNCHANGED <<disk, remote, globals, pool, pipeVars, optimizer, returned, run>>

\* chunks in an order that follows the completions: the chunk fetched last
\* comes first
ChunksLastFirst(ranges, last) ==
  [k \in DOMAIN ranges |->
     IF k = 1 THEN last ELSE IF k <= last THEN k - 1 ELSE k]

\* chunks = list(executor.map(...)): the results in the order of the ranges,
\* whatever the order in which the fetches completed (last is the index of the
\* range fetched last); each chunk is named by the index of its range
Chunks(ranges, last) == [k \in DOMAIN ranges |-> k]

\* chunks = list(executor.map(...)) raises when a chunk fetch raised; otherwise
\* open(temp_file, 'wb') creates or truncates the temporary file
download_open(w) ==
  /\ dl[w].pc = "fetch"
  /\ \A k \in DOMAIN dl[w].got : dl[w].got[k] # "pending"
  /\ IF \E k \in DOMAIN dl[w].got : dl[w].got[k] = "err"
       THEN /\ dl' = [dl EXCEPT ![w] = DlRaise(@)]
            /\ UNCHANGED disk
       ELSE \/ /\ dl' = [dl EXCEPT ![w].pc = "write"]
               /\ disk' = [disk EXCEPT ![temp_file(dl[w])] =
                             PartFile(0, dl[w].body_len)]
            \/ /\ "error" \in remote.answers
               /\ dl' = [dl EXCEPT ![w] = DlRaise(@)]
               /\ UNCHANGED disk
  /\ UNCHANGED <<remote, globals, pool, pipeVars, optimizer, returned, run>>

\* for chunk in chunks: f.write(chunk), in index order: the bytes that
\* arrived for the chunk, whatever their number; a write may fail
download_write(w) ==
  /\ dl[w].pc = "write"
  /\ dl[w].written < Len(dl[w].ranges)
  /\ \/ LET k == Chunks(dl[w].ranges, dl[w].last)[dl[w].written + 1]
            n == Served(dl[w].ranges[k], dl[w].body_len, dl[w].server)
        IN /\ disk' = [disk EXCEPT ![temp_file(dl[w])] =
                         IF @.exists THEN [@ EXCEPT !.len = @ + n]
                                     ELSE PartFile(n, dl[w].body_len)]
           /\ dl' = [dl EXCEPT ![w].written = @ + 1,
                               ![w].wrote = Append(@, k)]
     \/ /\ "error" \in remote.answers
        /\ dl' = [dl EXCEPT ![w] = DlRaise(@)]
        /\ UNCHANGED disk
  /\ UNCHANGED <<remote, globals, pool, pipeVars, optimizer, returned, run>>

\* os.rename(temp_file, output_file); return True
download_rename(w) ==
  /\ dl[w].pc = "write"
  /\ dl[w].written = Len(dl[w].ranges)
  /\ \/ /\ \E b \in remote.bodies :
             LET t == temp_file(dl[w])
             IN disk' = [disk EXCEPT
                           ![dl[w].output_file] = [disk[t] EXCEPT !.body = b],
                           ![t] = NoFile]
        /\ dl' = [dl EXCEPT ![w] = DlEnd(@, "true")]
     \/ \* os.rename raises
        /\ "error" \in remote.answers
        /\ dl' = [dl EXCEPT ![w] = DlRaise(@)]
        /\ UNCHANGED disk
  /\ UNCHANGED <<remote, globals, pool, pipeVars, optimizer, returned, run>>

DownloadStep(w) ==
  \/ download_head(w)
  \/ download_chunk(w)
  \/ download_open(w)
  \/ download_write(w)
  \/ download_rename(w)

-----------------------------------------------------------------------------
(* Validator *)

\* the variables of the product each source serves
ProductVars(d) ==
  CASE d = "era5" -> {"msl", "t2m"}
    [] d = "modis_snow" -> {"NDSI_Snow_Cover"}
    [] d = "goes16" -> {"Rad"}
    [] OTHER -> {"precipitationCal"}

\* ds.variables of a file of dataset d with content `body`
DsVariables(d, body) ==
  CASE body = "good" -> ProductVars(d)
    [] body \in {"hot", "cold", "gap"} -> ProductVars(d) \cup {"skin_temperature"}
    [] body = "caps" -> ProductVars(d) \cup {"Sea_Surface_Temperature"}
    [] body = "novar" -> {"lat", "lon"}
    [] OTHER -> {}

\* ds[var].values: the numbers among them
DsValues(body, var) ==
  IF body = "hot" /\ var = "skin_temperature" THEN {280, 500}
  ELSE IF body = "cold" /\ var = "skin_temperature" THEN {150, 280}
  ELSE IF body = "caps" /\ var = "Sea_Surface_Temperature" THEN {280, 500}
  ELSE {250, 300}

\* ds[var].values holds NaN (a masked or missing value) beside its numbers;
\* NaN < 200 and NaN > 350 are both False
DsMissing(body, var) == body = "gap" /\ var = "skin_temperature"

\* a match of 'temperature' that minds the case
ContainsTemperatureCase(var) == var \in {"skin_temperature"}

\* 'temperature' in var.lower()
ContainsTemperature(var) ==
  var \in {"skin_temperature", "Sea_Surface_Temperature"}

\* np.any(data < 200)
TempMin == 200

\* np.any(data > 350)
TempMax == 350

\* xr.open_dataset(file_path) returns a dataset: the file can be read and is a
\* whole container
Opens(f) ==
  /\ f.exists
  /\ f.readable
  /\ f.len = f.total
  /\ f.body \in {"good", "hot", "cold", "gap", "caps", "novar"}

\* dataset_config.get('variables', [dataset_config.get('variable')]), iterated:
\* era5's 'variables' entry is the string 'era5_variables', whose elements are
\* its characters
ExpectedVars(d) ==
  CASE d = "era5" -> {"e", "r", "a", "5", "_", "v", "i", "b", "l", "s"}
    [] d = "modis_snow" -> {"NDSI_Snow_Cover"}
    [] d = "goes16" -> {"Rad"}
    [] OTHER -> {"precipitationCal"}

\* Validator.validate_file(file_path, expected_vars), f the file at file_path
validate_file(f, d, expected_vars) ==
  IF ~f.exists \/ f.len = 0 THEN FALSE
  ELSE IF ~Opens(f) THEN FALSE
  ELSE IF expected_vars # {} /\ ~(expected_vars \subseteq DsVariables(d, f.body))
    THEN FALSE
  ELSE IF \E var \in DsVariables(d, f.body) :
            /\ ContainsTemperature(var)
            /\ \E x \in DsValues(f.body, var) : x < TempMin \/ x > TempMax
    THEN FALSE
  ELSE TRUE

\* compute_sha256 returning None
None == <<>>

\* Validator.compute_sha256(file_path): the digest identifies the bytes
compute_sha256(f) ==
  IF f.exists /\ f.readable THEN <<f.body, f.len, f.total, f.stamp>> ELSE None

\* a direct call of validate_file on the file at the final path of (d, m)
validate(w) ==
  /\ w \in pool
  /\ \E d \in Datasets, m \in Months,
        expected_vars \in {{}, {"Rad"}, {"NDSI_Snow_Cover", "precipitationCal"}} :
       returned' =
         [fn |-> "validate_file", file |-> disk[OutputFile(d, m)], dataset |-> d,
          expected_vars |-> expected_vars,
          value |-> validate_file(disk[OutputFile(d, m)], d, expected_vars)]
  /\ UNCHANGED <<disk, remote, globals, pool, dl, pipeVars, optimizer, run>>

-----------------------------------------------------------------------------
(* Pipeline *)

IdleCall ==
  [pc |-> "idle", dataset |-> "none", month |-> 0, dry_run |-> FALSE,
   aws_bucket |-> FALSE, id |-> 0, attempts |-> 0, success |-> "none",
   elapsed |-> 0, file_hash |-> None, ret |-> "none", hit |-> FALSE,
   valid |-> "none", caught |-> FALSE, neterr |-> FALSE, upload |-> "none",
   counter |-> "none", reg |-> 0, lost |-> {}]

\* Pipeline.__init__
NoMetrics ==
  [success |-> 0, failures |-> 0, total_time |-> 0, total_size |-> 0,
   response_times |-> <<>>]

\* a log that keeps no record of failures
log_transaction_nofail(tl, action, d, m, info, ts) ==
  IF action = "fail_download" THEN tl
  ELSE Append(tl, [action |-> action, dataset |-> d, month |-> m,
                   info |-> info, timestamp |-> ts])

\* Pipeline.log_transaction(action, details): the details are the dataset, the
\* month where they carry a date or a file name (0 where they do not), and the
\* reason or the hash
log_transaction(tl, action, d, m, info, ts) ==
  Append(tl, [action |-> action, dataset |-> d, month |-> m, info |-> info,
              timestamp |-> ts])

\* Notifier.notify(message, level)
notify(ns, level, msg, d, ts) ==
  Append(ns, [level |-> level, msg |-> msg, dataset |-> d, timestamp |-> ts])

\* a handler that lets the exception go on to the caller
process_reraise == "raise"

\* `except Exception as e:` of process: notify, log fail_download, return False
process_except == "false"

Returned(c, r) == [c EXCEPT !.pc = "returned", !.ret = r]

Fetched(c, s) == [c EXCEPT !.pc = "fetched", !.success = s]

\* the call c of process on worker w from line 353 to line 364: the dataset
\* test, the cache lookup and start_download
process_enter(w, c) ==
  LET d == c.dataset
      out == OutputFile(d, c.month)
      file_hash == IF disk[out].exists THEN compute_sha256(disk[out])
                   ELSE None
  IN IF d \notin Datasets
       THEN /\ notes' = notify(notes, "ERROR", "invalid dataset", d, c.id)
            /\ call' = [call EXCEPT ![w] = Returned(c, "false")]
            /\ UNCHANGED transaction_log
     ELSE IF file_hash # None /\ file_hash \in DOMAIN cache
       THEN /\ notes' = notify(notes, "INFO", "cached", d, c.id)
            /\ call' = [call EXCEPT ![w] =
                          Returned([c EXCEPT !.hit = TRUE], "true")]
            /\ UNCHANGED transaction_log
     ELSE /\ transaction_log' =
               log_transaction(transaction_log, "start_download", d, c.month,
                               "date", c.id)
          /\ call' = [call EXCEPT ![w] = [c EXCEPT !.pc = "started"]]
          /\ UNCHANGED notes

\* a direct call process(dataset, date, config, dry_run, aws_bucket), up to
\* start_download
process(w) ==
  /\ w \in pool
  /\ run.pc = "idle"
  /\ call[w].pc \in {"idle", "returned"}
  /\ dl[w].pc = "idle"
  /\ ncalls < MaxCalls
  /\ ncalls' = ncalls + 1
  /\ \E d \in Datasets \cup {"unknown"}, m \in Months, dry \in BOOLEAN,
        aws \in BOOLEAN :
       \* aws_bucket is read at line 389 alone, which a dry run does not
       \* reach: a bucket is named in the first call of the series, when
       \* it is not a dry run
       /\ aws => (~dry /\ d \in Datasets /\ ncalls = 0)
       /\ process_enter(w, [IdleCall EXCEPT !.dataset = d, !.month = m,
                                            !.dry_run = dry,
                                            !.aws_bucket = aws,
                                            !.id = ncalls + 1])
  /\ UNCHANGED <<disk, remote, globals, pool, dl, faults, cache,
                 download_metrics, bucket, optimizer, returned, run>>

\* an exception of the body arrives at `except Exception as e:`, line 401
Raised(c) == [c EXCEPT !.pc = "except", !.caught = TRUE]

\* start_time = time.time(), line 365: the name `time` is looked up in the
\* module namespace; a NameError goes to the handler of process
start_time(w) ==
  /\ call[w].pc = "started"
  /\ call' = [call EXCEPT ![w] = IF "time" \notin globals THEN Raised(@)
                                 ELSE [@ EXCEPT !.pc = "fetch"]]
  /\ UNCHANGED <<disk, remote, globals, pool, dl, ncalls, faults, cache,
                 transaction_log, download_metrics, notes, bucket, optimizer,
                 returned, run>>

\* line 402, the first statement of the handler:
\* self.notifier.notify(f'Pipeline error for {dataset} ...', 'ERROR')
except_notify(w) ==
  /\ call[w].pc = "except"
  /\ notes' = notify(notes, "ERROR", "pipeline error", call[w].dataset,
                     call[w].id)
  /\ call' = [call EXCEPT ![w].pc = "handled"]
  /\ UNCHANGED <<disk, remote, globals, pool, dl, ncalls, faults, cache,
                 transaction_log, download_metrics, bucket, optimizer,
                 returned, run>>

\* lines 403-404, the rest of the handler:
\* self.log_transaction('fail_download', ...) and return False
except_log(w) ==
  /\ call[w].pc = "handled"
  /\ transaction_log' =
       log_transaction(transaction_log, "fail_download", call[w].dataset, 0,
                       "exception", call[w].id)
  /\ call' = [call EXCEPT ![w] = Returned(@, process_except)]
  /\ UNCHANGED <<disk, remote, globals, pool, dl, ncalls, faults, cache,
                 download_metrics, notes, bucket, optimizer, returned, run>>

\* the attempt of the strategy met a transport error
NetErr(c) == [c EXCEPT !.neterr = TRUE]

\* `except Exception as e: ... return False` of download_era5
Era5Except == "false"

\* the body of the decorated download_era5 ended with `outcome`
Era5End(c, outcome) ==
  LET r == RetryDecision(outcome, c.attempts)
  IN IF r = "retry" THEN [c EXCEPT !.pc = "fetch"] ELSE Fetched(c, r)

\* download_era5(date, config, dry_run) up to cds_client.retrieve
download_era5(w) ==
  /\ call[w].pc = "fetch"
  /\ call[w].dataset = "era5"
  /\ LET c == [call[w] EXCEPT !.attempts = @ + 1]
         p == StrategyFile("era5", c.month)
     IN IF c.dry_run
          THEN /\ notes' = notify(notes, "INFO", "dry run", "era5", c.id)
               /\ call' = [call EXCEPT ![w] = Era5End(c, "true")]
               /\ UNCHANGED disk
          ELSE /\ UNCHANGED notes
               /\ \/ \* the request fails before anything is written
                     /\ "error" \in remote.answers
                     /\ call' = [call EXCEPT ![w] =
                                   Era5End(NetErr(c), Era5Except)]
                     /\ UNCHANGED disk
                  \/ \* the transfer into output_file breaks off
                     /\ "error" \in remote.answers
                     /\ call' = [call EXCEPT ![w] =
                                   Era5End(NetErr(c), Era5Except)]
                     /\ disk' = [disk EXCEPT ![p] = PartFile(1, 2)]
                  \/ \E b \in remote.bodies :
                       /\ "ok" \in remote.answers
                       /\ call' = [call EXCEPT ![w] = [c EXCEPT !.pc = "stamp"]]
                       /\ disk' = [disk EXCEPT ![p] = WholeFile(b, 1)]
  /\ UNCHANGED <<remote, globals, pool, dl, ncalls, faults, cache,
                 transaction_log, download_metrics, bucket, optimizer, returned, run>>

\* download_modis_snow / download_gpm up to the call of Downloader.download
download_listing(w) ==
  /\ call[w].pc = "fetch"
  /\ call[w].dataset \in {"modis_snow", "gpm"}
  /\ LET c == [call[w] EXCEPT !.attempts = @ + 1]
         p == StrategyFile(c.dataset, c.month)
     IN IF "config" \notin globals
          THEN \* url = config['datasets'][...] raises NameError
               /\ call' = [call EXCEPT ![w] = Fetched(c, "false")]
               /\ UNCHANGED <<notes, dl>>
        ELSE IF c.dry_run
          THEN /\ notes' = notify(notes, "INFO", "dry run", c.dataset, c.id)
               /\ call' = [call EXCEPT ![w] = Fetched(c, "true")]
               /\ UNCHANGED dl
        ELSE /\ UNCHANGED notes
             /\ \/ \* the listing request raises
                   /\ "error" \in remote.answers
                   /\ call' = [call EXCEPT ![w] = Fetched(NetErr(c), "false")]
                   /\ UNCHANGED dl
                \/ \* the listing holds no matching link
                   /\ "empty" \in remote.answers
                   /\ call' = [call EXCEPT ![w] = Fetched(c, "false")]
                   /\ UNCHANGED dl
                \/ /\ "ok" \in remote.answers
                   /\ call' = [call EXCEPT ![w] = [c EXCEPT !.pc = "download"]]
                   /\ dl' = [dl EXCEPT ![w] =
                               DlEnter(p, DefaultChunkSize, DefaultNumThreads,
                                       "strategy")]
  /\ UNCHANGED <<disk, remote, globals, pool, ncalls, faults, cache,
                 transaction_log, download_metrics, bucket, optimizer, returned, run>>

\* success = self.downloader.download(...) has returned
download_returned(w) ==
  /\ call[w].pc = "download"
  /\ dl[w].pc = "done"
  /\ dl' = [dl EXCEPT ![w] = IdleDl]
  /\ call' = [call EXCEPT ![w] =
                IF dl[w].result = "true" THEN [@ EXCEPT !.pc = "stamp"]
                ELSE IF dl[w].errors > 0 THEN Fetched(NetErr(@), "false")
                ELSE Fetched(@, "false")]
  /\ UNCHANGED <<disk, remote, globals, pool, ncalls, faults, cache,
                 transaction_log, download_metrics, notes, bucket, optimizer, returned, run>>

\* download_goes16(date, dry_run) up to s3.download_file
download_goes16(w) ==
  /\ call[w].pc = "fetch"
  /\ call[w].dataset = "goes16"
  /\ LET c == [call[w] EXCEPT !.attempts = @ + 1]
         p == StrategyFile("goes16", c.month)
     IN IF c.dry_run
          THEN /\ notes' = notify(notes, "INFO", "dry run", "goes16", c.id)
               /\ call' = [call EXCEPT ![w] = Fetched(c, "true")]
               /\ UNCHANGED disk
        ELSE IF "config" \notin globals
          THEN \* prefix = config['datasets'][...] raises NameError
               /\ call' = [call EXCEPT ![w] = Fetched(c, "false")]
               /\ UNCHANGED <<notes, disk>>
        ELSE /\ UNCHANGED notes
             /\ \/ \* the listing or the transfer raises
                   /\ "error" \in remote.answers
                   /\ call' = [call EXCEPT ![w] = Fetched(NetErr(c), "false")]
                   /\ UNCHANGED disk
                \/ \* no Contents, or no C13 key
                   /\ "empty" \in remote.answers
                   /\ call' = [call EXCEPT ![w] = Fetched(c, "false")]
                   /\ UNCHANGED disk
                \/ \E b \in remote.bodies :
                     /\ "ok" \in remote.answers
                     /\ call' = [call EXCEPT ![w] = [c EXCEPT !.pc = "stamp"]]
                     /\ disk' = [disk EXCEPT ![p] = WholeFile(b, 1)]
  /\ UNCHANGED <<remote, globals, pool, dl, ncalls, faults, cache,
                 transaction_log, download_metrics, bucket, optimizer, returned, run>>

\* what the strategy makes of an exception of the provenance stamp
StampExcept(c) ==
  IF c.dataset = "era5" THEN Era5End(c, Era5Except) ELSE Fetched(c, "false")

\* with xr.open_dataset(output_file) as ds: ds.attrs[...] = ...;
\* ds.to_netcdf(output_file), then return True
stamp(w) ==
  /\ call[w].pc = "stamp"
  /\ LET c == call[w]
         p == StrategyFile(c.dataset, c.month)
     IN IF ~Opens(disk[p])
          THEN /\ call' = [call EXCEPT ![w] = StampExcept(c)]
               /\ UNCHANGED disk
          ELSE \/ /\ disk' = [disk EXCEPT ![p].stamp = c.id]
                  /\ call' = [call EXCEPT ![w] =
                                IF c.dataset = "era5" THEN Era5End(c, "true")
                                ELSE Fetched(c, "true")]
               \/ \* the rewrite fails before the file is touched
                  /\ "error" \in remote.answers
                  /\ call' = [call EXCEPT ![w] = StampExcept(c)]
                  /\ UNCHANGED disk
               \/ \* the rewrite fails after truncating the file
                  /\ "error" \in remote.answers
                  /\ call' = [call EXCEPT ![w] = StampExcept(c)]
                  /\ disk' = [disk EXCEPT ![p].len = 0]
  /\ UNCHANGED <<remote, globals, pool, dl, ncalls, faults, cache,
                 transaction_log, download_metrics, notes, bucket, optimizer, returned, run>>

\* a failure exit that does not count the failure
FailMetricsNone(dm) == dm

\* the failure exit of process: failures += 1, log fail_download
FailMetrics(dm) == [dm EXCEPT !.failures = @ + 1]

\* the failure exit after a rollback: rollback_download, failures += 1,
\* fail_download (lines 393 or 397, then 398-399)
RolledBack(tl, c, reason) ==
  log_transaction(
    log_transaction(tl, "rollback_download", c.dataset, 0, reason, c.id),
    "fail_download", c.dataset, 0, "download or validation failed", c.id)

\* elapsed = time.time() - start_time; response_times.append(elapsed);
\* if success and not dry_run: validate_file(output_file, expected_vars); when
\* nothing is to be validated, the failure exit
process_validate(w) ==
  /\ call[w].pc = "fetched"
  /\ \E e \in remote.times :
       LET c == [call[w] EXCEPT !.elapsed = e]
           out == OutputFile(c.dataset, c.month)
           dm == [download_metrics EXCEPT !.response_times = Append(@, e)]
           ok == validate_file(disk[out], c.dataset, ExpectedVars(c.dataset))
       IN IF c.success = "raise"
            THEN \* the strategy raised: the handler of process
                 /\ notes' = notify(notes, "ERROR", "pipeline error", c.dataset, c.id)
                 /\ transaction_log' =
                      log_transaction(transaction_log, "fail_download",
                                      c.dataset, 0, "exception", c.id)
                 /\ call' = [call EXCEPT ![w] =
                               Returned([call[w] EXCEPT !.caught = TRUE],
                                        process_except)]
                 /\ UNCHANGED <<disk, download_metrics>>
          ELSE IF c.success = "true" /\ ~c.dry_run /\ ok
            THEN /\ call' = [call EXCEPT ![w] =
                               [c EXCEPT !.pc = "hash", !.valid = "true"]]
                 /\ download_metrics' = dm
                 /\ UNCHANGED <<disk, transaction_log, notes>>
          ELSE IF c.success = "true" /\ ~c.dry_run
            THEN \* validate_file returned False
                 /\ call' = [call EXCEPT ![w] =
                               [c EXCEPT !.pc = "invalid", !.valid = "false"]]
                 /\ download_metrics' = dm
                 /\ UNCHANGED <<disk, transaction_log, notes>>
          ELSE /\ transaction_log' =
                    log_transaction(transaction_log, "fail_download",
                                    c.dataset, 0, "download or validation failed",
                                    c.id)
               /\ download_metrics' = FailMetrics(dm)
               /\ call' = [call EXCEPT ![w] = Returned(c, "false")]
               /\ UNCHANGED <<disk, notes>>
  /\ UNCHANGED <<remote, globals, pool, dl, ncalls, faults, cache, bucket, optimizer, returned, run>>

\* if os.path.exists(output_file): the test of line 395; without a file,
\* rollback_download and the failure exit
process_exists(w) ==
  /\ call[w].pc = "invalid"
  /\ LET c == call[w]
         out == OutputFile(c.dataset, c.month)
     IN IF disk[out].exists
          THEN /\ call' = [call EXCEPT ![w].pc = "remove"]
               /\ UNCHANGED <<transaction_log, download_metrics>>
          ELSE /\ transaction_log' =
                    RolledBack(transaction_log, c, "validation failed")
               /\ download_metrics' = FailMetrics(download_metrics)
               /\ call' = [call EXCEPT ![w] = Returned(c, "false")]
  /\ UNCHANGED <<disk, remote, globals, pool, dl, ncalls, faults, cache, notes,
                 bucket, optimizer, returned, run>>

\* os.remove(output_file), line 396, which raises when the file has gone since
\* the test; then rollback_download and the failure exit
process_remove(w) ==
  /\ call[w].pc = "remove"
  /\ LET c == call[w]
         out == OutputFile(c.dataset, c.month)
     IN IF ~disk[out].exists
          THEN \* FileNotFoundError: the handler of process
               /\ notes' = notify(notes, "ERROR", "pipeline error", c.dataset, c.id)
               /\ transaction_log' =
                    log_transaction(transaction_log, "fail_download",
                                    c.dataset, 0, "exception", c.id)
               /\ call' = [call EXCEPT ![w] =
                             Returned([c EXCEPT !.caught = TRUE], process_except)]
               /\ UNCHANGED <<disk, download_metrics>>
          ELSE /\ disk' = [disk EXCEPT ![out] = NoFile]
               /\ transaction_log' =
                    RolledBack(transaction_log, c, "validation failed")
               /\ download_metrics' = FailMetrics(download_metrics)
               /\ call' = [call EXCEPT ![w] = Returned(c, "false")]
               /\ UNCHANGED notes
  /\ UNCHANGED <<remote, globals, pool, dl, ncalls, faults, cache, bucket,
                 optimizer, returned, run>>

\* file_hash = self.validator.compute_sha256(output_file); without a digest:
\* rollback_download 'hash computation failed' and the failure exit
process_hash(w) ==
  /\ call[w].pc = "hash"
  /\ LET c == call[w]
         out == OutputFile(c.dataset, c.month)
         file_hash == compute_sha256(disk[out])
     IN IF file_hash # None
          THEN /\ call' = [call EXCEPT ![w] =
                             [c EXCEPT !.pc = "commit", !.file_hash = file_hash]]
               /\ UNCHANGED <<transaction_log, download_metrics>>
          ELSE /\ transaction_log' =
                    RolledBack(transaction_log, c, "hash computation failed")
               /\ download_metrics' = FailMetrics(download_metrics)
               /\ call' = [call EXCEPT ![w] = Returned(c, "false")]
  /\ UNCHANGED <<disk, remote, globals, pool, dl, ncalls, faults, cache, notes,
                 bucket, optimizer, returned, run>>

\* a cache that is never filled
CacheInsertNone(ch, h, file) == ch

\* self.cache[file_hash] = {'file': ..., 'access_count': previous + 1}
CacheInsert(ch, h, file) ==
  [k \in DOMAIN ch \cup {h} |->
     IF k = h
       THEN [file |-> file,
             access_count |-> (IF h \in DOMAIN ch THEN ch[h].access_count ELSE 0) + 1]
       ELSE ch[k]]

\* the valid branch of process: cache and metrics update, complete_download,
\* the optional upload, return True
process_commit(w) ==
  /\ call[w].pc = "commit"
  /\ LET c == call[w]
         out == OutputFile(c.dataset, c.month)
         dm == [download_metrics EXCEPT !.success = @ + 1,
                                        !.total_time = @ + c.elapsed]
     IN /\ cache' = CacheInsert(cache, c.file_hash, out)
        /\ IF ~disk[out].exists
             THEN \* os.path.getsize(output_file) raises: the handler of process
                  /\ download_metrics' = dm
                  /\ notes' = notify(notes, "ERROR", "pipeline error", c.dataset, c.id)
                  /\ transaction_log' =
                       log_transaction(transaction_log, "fail_download",
                                       c.dataset, 0, "exception", c.id)
                  /\ call' = [call EXCEPT ![w] =
                                Returned([c EXCEPT !.caught = TRUE],
                                         process_except)]
                  /\ UNCHANGED bucket
             ELSE /\ download_metrics' =
                       [dm EXCEPT !.total_size = @ + disk[out].len]
                  /\ transaction_log' =
                       log_transaction(transaction_log, "complete_download",
                                       c.dataset, c.month, c.file_hash, c.id)
                  /\ UNCHANGED notes
                  /\ \E uploaded \in (IF c.aws_bucket THEN BOOLEAN
                                      ELSE {FALSE}) :
                       \* if aws_bucket: Storage.save_to_s3, which logs a
                       \* failed upload and returns
                       /\ call' = [call EXCEPT ![w] =
                                     Returned([c EXCEPT
                                                 !.upload =
                                                   IF ~c.aws_bucket THEN "none"
                                                   ELSE IF uploaded THEN "ok"
                                                   ELSE "failed"],
                                              "true")]
                       /\ bucket' = IF uploaded THEN bucket \cup {out}
                                    ELSE bucket
  /\ UNCHANGED <<disk, remote, globals, pool, dl, ncalls, faults, optimizer, returned, run>>

\* another process of the machine removes an artifact or makes it unreadable
external_change ==
  /\ faults < MaxFaults
  /\ faults' = faults + 1
  /\ \E p \in {OutputFile(d, m) : d \in Datasets, m \in Months} :
       /\ disk[p].exists
       /\ disk[p].readable
       /\ \/ disk' = [disk EXCEPT ![p] = NoFile]
          \/ disk' = [disk EXCEPT ![p].readable = FALSE]
  /\ UNCHANGED <<remote, globals, pool, dl, call, ncalls, cache,
                 transaction_log, download_metrics, notes, bucket, optimizer, returned, run>>

ProcessStep(w) ==
  \/ process(w)
  \/ start_time(w)
  \/ except_notify(w)
  \/ except_log(w)
  \/ download_era5(w)
  \/ download_listing(w)
  \/ download_returned(w)
  \/ download_goes16(w)
  \/ stamp(w)
  \/ process_validate(w)
  \/ process_exists(w)
  \/ process_remove(w)
  \/ process_hash(w)
  \/ process_commit(w)

-----------------------------------------------------------------------------
(* The end of Pipeline.process statement by statement, for the calls that one
   batch of download_all runs on the threads of its pool.  An augmented
   assignment `d[k] += x` is a read of d[k], the evaluation of x, an addition
   and a store; another thread may run between the read and the store. *)

\* the right-hand side of the augmented assignment to counter k
Amount(c, k) ==
  CASE k = "total_time" -> c.elapsed
    [] k = "total_size" -> disk[OutputFile(c.dataset, c.month)].len
    [] OTHER -> 1

\* an update made under a lock: the addition applies to the value at the store
WriteBackAtomic(current, reg, amount) == current + amount

\* the store of `d[k] += x`: the value read earlier plus x
WriteBack(current, reg, amount) == reg + amount

\* on to the read of counter k
Load(c, k) == [c EXCEPT !.pc = "load", !.counter = k]

\* lines 376-377: elapsed = time.time() - start_time and its append; when
\* the strategy raised, the exception arrives at the handler of line 401
tail_elapsed(w) ==
  /\ w \in pool
  /\ call[w].pc = "fetched"
  /\ LET c == call[w]
     IN IF c.success = "raise"
          THEN /\ call' = [call EXCEPT ![w] = Raised(c)]
               /\ UNCHANGED download_metrics
          ELSE /\ \E e \in remote.times :
                    /\ download_metrics' =
                         [download_metrics EXCEPT
                            !.response_times = Append(@, e)]
                    /\ call' = [call EXCEPT ![w].pc = "validate",
                                            ![w].elapsed = e]
  /\ UNCHANGED <<disk, remote, globals, pool, dl, ncalls, faults, cache,
                 transaction_log, notes, bucket, optimizer, returned, run>>

\* lines 379-381: if success and not dry_run: validate_file(output_file, ...)
tail_validate(w) ==
  /\ w \in pool
  /\ call[w].pc = "validate"
  /\ LET c == call[w]
         out == OutputFile(c.dataset, c.month)
         ok == validate_file(disk[out], c.dataset, ExpectedVars(c.dataset))
     IN call' = [call EXCEPT ![w] =
                   IF c.success = "true" /\ ~c.dry_run /\ ok
                     THEN [c EXCEPT !.pc = "hash", !.valid = "true"]
                   ELSE IF c.success = "true" /\ ~c.dry_run
                     THEN [c EXCEPT !.pc = "invalid", !.valid = "false"]
                   ELSE Load(c, "failures")]
  /\ UNCHANGED <<disk, remote, globals, pool, dl, ncalls, faults, cache,
                 transaction_log, download_metrics, notes, bucket, optimizer,
                 returned, run>>

\* line 395: if os.path.exists(output_file)
tail_exists(w) ==
  /\ w \in pool
  /\ call[w].pc = "invalid"
  /\ call' = [call EXCEPT ![w].pc =
                IF disk[OutputFile(call[w].dataset, call[w].month)].exists
                  THEN "remove" ELSE "rollback"]
  /\ UNCHANGED <<disk, remote, globals, pool, dl, ncalls, faults, cache,
                 transaction_log, download_metrics, notes, bucket, optimizer,
                 returned, run>>

\* line 396: os.remove(output_file); it raises when the file has gone, and the
\* exception arrives at the handler of line 401
tail_remove(w) ==
  /\ w \in pool
  /\ call[w].pc = "remove"
  /\ LET c == call[w]
         out == OutputFile(c.dataset, c.month)
     IN IF ~disk[out].exists
          THEN /\ call' = [call EXCEPT ![w] = Raised(c)]
               /\ UNCHANGED disk
          ELSE /\ disk' = [disk EXCEPT ![out] = NoFile]
               /\ call' = [call EXCEPT ![w].pc = "rollback"]
  /\ UNCHANGED <<remote, globals, pool, dl, ncalls, faults, cache,
                 transaction_log, download_metrics, notes, bucket, optimizer,
                 returned, run>>

\* line 397: log_transaction('rollback_download', ... 'validation failed')
tail_rollback(w) ==
  /\ w \in pool
  /\ call[w].pc = "rollback"
  /\ transaction_log' =
       log_transaction(transaction_log, "rollback_download", call[w].dataset,
                       0, "validation failed", call[w].id)
  /\ call' = [call EXCEPT ![w] = Load(@, "failures")]
  /\ UNCHANGED <<disk, remote, globals, pool, dl, ncalls, faults, cache,
                 download_metrics, notes, bucket, optimizer, returned, run>>

\* lines 382-383 and 393: the digest, and the rollback record without one
tail_hash(w) ==
  /\ w \in pool
  /\ call[w].pc = "hash"
  /\ LET c == call[w]
         out == OutputFile(c.dataset, c.month)
         file_hash == compute_sha256(disk[out])
     IN IF file_hash # None
          THEN /\ call' = [call EXCEPT ![w] =
                             [c EXCEPT !.pc = "cache", !.file_hash = file_hash]]
               /\ UNCHANGED transaction_log
          ELSE /\ transaction_log' =
                    log_transaction(transaction_log, "rollback_download",
                                    c.dataset, 0, "hash computation failed", c.id)
               /\ call' = [call EXCEPT ![w] = Load(c, "failures")]
  /\ UNCHANGED <<disk, remote, globals, pool, dl, ncalls, faults, cache,
                 download_metrics, notes, bucket, optimizer, returned, run>>

\* line 384: the cache entry
tail_cache(w) ==
  /\ w \in pool
  /\ call[w].pc = "cache"
  /\ cache' = CacheInsert(cache, call[w].file_hash,
                          OutputFile(call[w].dataset, call[w].month))
  /\ call' = [call EXCEPT ![w] = Load(@, "success")]
  /\ UNCHANGED <<disk, remote, globals, pool, dl, ncalls, faults,
                 transaction_log, download_metrics, notes, bucket, optimizer,
                 returned, run>>

\* the read of self.download_metrics[k] in lines 385-387 and 398
metrics_load(w) ==
  /\ w \in pool
  /\ call[w].pc = "load"
  /\ call' = [call EXCEPT ![w].pc = "store",
                          ![w].reg = download_metrics[call[w].counter]]
  /\ UNCHANGED <<disk, remote, globals, pool, dl, ncalls, faults, cache,
                 transaction_log, download_metrics, notes, bucket, optimizer,
                 returned, run>>

\* the store into self.download_metrics[k], and on to the next statement;
\* os.path.getsize(output_file) of line 387 raises when the file has gone,
\* and the exception arrives at the handler of line 401
metrics_store(w) ==
  /\ w \in pool
  /\ call[w].pc = "store"
  /\ LET c == call[w]
         k == c.counter
         seen == [c EXCEPT !.reg = 0,
                           !.lost = IF download_metrics[k] # c.reg
                                      THEN @ \cup {k} ELSE @]
     IN IF k = "total_size" /\ ~disk[OutputFile(c.dataset, c.month)].exists
          THEN /\ call' = [call EXCEPT ![w] =
                             Raised([c EXCEPT !.reg = 0, !.counter = "none"])]
               /\ UNCHANGED download_metrics
          ELSE /\ download_metrics' =
                    [download_metrics EXCEPT
                       ![k] = WriteBack(@, c.reg, Amount(c, k))]
               /\ call' = [call EXCEPT ![w] =
                             CASE k = "success" -> Load(seen, "total_time")
                               [] k = "total_time" -> Load(seen, "total_size")
                               [] OTHER -> [seen EXCEPT !.pc = "log"]]
  /\ UNCHANGED <<disk, remote, globals, pool, dl, ncalls, faults, cache,
                 transaction_log, notes, bucket, optimizer, returned, run>>

\* line 388, or lines 399-400: the terminal record of the call.  A failure
\* returns False with it; a success without a bucket skips line 390 and
\* returns True; a success with a bucket goes on to the upload
tail_return(w) ==
  /\ w \in pool
  /\ call[w].pc = "log"
  /\ LET c == [call[w] EXCEPT !.counter = "none"]
     IN IF call[w].counter = "failures"
          THEN /\ transaction_log' =
                    log_transaction(transaction_log, "fail_download", c.dataset,
                                    0, "download or validation failed", c.id)
               /\ call' = [call EXCEPT ![w] = Returned(c, "false")]
          ELSE /\ transaction_log' =
                    log_transaction(transaction_log, "complete_download",
                                    c.dataset, c.month, c.file_hash, c.id)
               /\ call' = [call EXCEPT ![w] =
                             IF c.aws_bucket THEN [c EXCEPT !.pc = "upload"]
                             ELSE Returned(c, "true")]
  /\ UNCHANGED <<disk, remote, globals, pool, dl, ncalls, faults, cache,
                 download_metrics, notes, bucket, optimizer, returned, run>>

\* lines 390-391: self.storage.save_to_s3(output_file, aws_bucket, ...), which
\* logs a failed upload and returns, and return True
tail_upload(w) ==
  /\ w \in pool
  /\ call[w].pc = "upload"
  /\ \E uploaded \in BOOLEAN :
       /\ call' = [call EXCEPT ![w] =
                     Returned([@ EXCEPT !.upload = IF uploaded THEN "ok"
                                                   ELSE "failed"],
                              "true")]
       /\ bucket' = IF uploaded
                      THEN bucket \cup {OutputFile(call[w].dataset,
                                                   call[w].month)}
                    ELSE bucket
  /\ UNCHANGED <<disk, remote, globals, pool, dl, ncalls, faults, cache,
                 transaction_log, download_metrics, notes, optimizer, returned,
                 run>>

TailStep(w) ==
  \/ tail_elapsed(w)
  \/ tail_validate(w)
  \/ tail_exists(w)
  \/ tail_remove(w)
  \/ tail_rollback(w)
  \/ tail_hash(w)
  \/ tail_cache(w)
  \/ metrics_load(w)
  \/ metrics_store(w)
  \/ tail_return(w)

-----------------------------------------------------------------------------
(* Optimizer *)

\* if len(self.historical_data) > 10
HistoryThreshold == 10

\* return 3: no response times, or the handler of predict_workers
DefaultWorkers == 3

\* avg_response < 5
SlowResponse == 5

SuccessValues == {0 - 1, 2}
ResponseTimes == {1, 9}

\* predictions of the regressor, in hundredths
PredGrid == {0 - 100, 0 - 34, 0, 33, 34, 50, 100, 166, 167, 200}

\* round(x) of a quotient a / b, b > 0: to the nearest integer, a half to
\* the even neighbour
Round(a, b) ==
  LET m == IF a >= 0 THEN a ELSE 0 - a
      q == m \div b
      r == m % b
      n == IF 2 * r > b \/ (2 * r = b /\ q % 2 = 1) THEN q + 1 ELSE q
  IN IF a >= 0 THEN n ELSE 0 - n

\* int(x) of a quotient a / b, b > 0: truncation towards zero
Trunc(a, b) == IF a >= 0 THEN a \div b ELSE 0 - ((0 - a) \div b)

RECURSIVE Sum(_)
Sum(q) == IF q = <<>> THEN 0 ELSE Head(q) + Sum(Tail(q))

\* DecisionTreeRegressor()
Unfitted == [fitted |-> FALSE, lo |-> 0, hi |-> 0]

\* Optimizer.__init__
NoOptimizer ==
  [historical_data |-> <<>>, model |-> Unfitted, updates |-> 0,
   predicted |-> [made |-> FALSE, response_times |-> <<>>, pred |-> 0,
                  workers |-> 0, psutil_ok |-> TRUE, history |-> 0]]

\* [response_time, file_size, cpu_load, mem_load, success]
Row(response_time, file_size, success) ==
  <<response_time, file_size, 50, 50, success>>

\* self.model.fit(X, y): a tree predicts a mean of targets it was fitted on
Fit(historical_data) ==
  LET y == {historical_data[i][5] : i \in 1..Len(historical_data)}
  IN [fitted |-> TRUE,
      lo |-> CHOOSE v \in y : \A u \in y : v <= u,
      hi |-> CHOOSE v \in y : \A u \in y : v >= u]

Predictions(model) ==
  IF ~model.fitted THEN {}
  ELSE {v \in PredGrid : 100 * model.lo <= v /\ v <= 100 * model.hi}

\* update_metrics(response_time, file_size, success)
update_metrics ==
  /\ optimizer.updates < MaxUpdates
  /\ \E success \in SuccessValues, psutil_ok \in BOOLEAN :
       LET h == Append(optimizer.historical_data, Row(2, 1, success))
       IN optimizer' =
            IF ~psutil_ok
              THEN \* psutil raises: logged, nothing appended
                   [optimizer EXCEPT !.updates = @ + 1]
            ELSE [optimizer EXCEPT
                    !.updates = @ + 1,
                    !.historical_data = h,
                    !.model = IF Len(h) > HistoryThreshold THEN Fit(h) ELSE @]
  /\ UNCHANGED <<disk, remote, globals, pool, dl, pipeVars, returned, run>>

\* the count as computed, not cut to 1..5
ClampNone(n) == n

\* max(1, min(5, n))
Clamp(n) == Max(1, Min(5, n))

\* `except Exception as e: ... return 3` of predict_workers
PredictExcept == DefaultWorkers

\* predict_workers with `avg_response <= 5` for `avg_response < 5`
predict_workers_le(historical_data, response_times, psutil_ok, pred) ==
  IF response_times = <<>> THEN DefaultWorkers
  ELSE IF ~psutil_ok THEN PredictExcept
  ELSE IF Len(historical_data) > HistoryThreshold
    THEN Clamp(Trunc(pred * 3, 100))
  ELSE IF Sum(response_times) <= SlowResponse * Len(response_times)
    THEN DefaultWorkers
  ELSE 1

\* predict_workers(response_times); pred is the prediction of the model in
\* hundredths, psutil_ok tells whether the load sensors answer
predict_workers(historical_data, response_times, psutil_ok, pred) ==
  IF response_times = <<>> THEN DefaultWorkers
  ELSE IF ~psutil_ok THEN PredictExcept
  ELSE IF Len(historical_data) > HistoryThreshold
    THEN Clamp(Trunc(pred * 3, 100))
  ELSE IF Sum(response_times) < SlowResponse * Len(response_times)
    THEN DefaultWorkers
  ELSE 1

\* a call of predict_workers
predict ==
  /\ \E n \in 0..MaxTimes, psutil_ok \in BOOLEAN :
     \E response_times \in [1..n -> ResponseTimes] :
     \E pred \in IF Len(optimizer.historical_data) > HistoryThreshold
                   /\ n > 0 /\ psutil_ok
                 THEN Predictions(optimizer.model) ELSE {0} :
       optimizer' =
         [optimizer EXCEPT !.predicted =
            [made |-> TRUE, response_times |-> response_times, pred |-> pred,
             workers |-> predict_workers(optimizer.historical_data,
                                         response_times, psutil_ok, pred),
             psutil_ok |-> psutil_ok,
             history |-> Len(optimizer.historical_data)]]
  /\ UNCHANGED <<disk, remote, globals, pool, dl, pipeVars, returned, run>>

-----------------------------------------------------------------------------
(* parse_natural_query *)

\* the words a query is made of; a query is its words joined by blanks, and
\* the empty query stands for no query (`if query:` is false for both)
Vocabulary ==
  {"2025", "era5land", "GPM", "summer", "Winter", "India", "2023", "1999",
   "x2031"}

Queries == UNION {[1..n -> Vocabulary] : n \in 0..MaxWords}

\* a parser that matches the query as typed
LowerNone(word) == word

\* query.lower(), word by word
Lower(word) ==
  CASE word = "GPM" -> "gpm"
    [] word = "Winter" -> "winter"
    [] word = "India" -> "india"
    [] OTHER -> word

\* `key in query` for the keys of datasets, seasons and regions: the keys that
\* are substrings of a lower-case word
Keys(word) ==
  CASE word = "era5land" -> {"era5"}
    [] word = "gpm" -> {"gpm"}
    [] word = "summer" -> {"summer"}
    [] word = "winter" -> {"winter"}
    [] word = "india" -> {"india"}
    [] OTHER -> {}

Contains(query, key) == \E i \in DOMAIN query : key \in Keys(Lower(query[i]))

\* re.search(r'\b(20\d{2})\b', query): the words that are such a token
YearToken(word) == word \in {"2023", "2025"}

\* list(config['datasets'].keys())
DatasetOrder == <<"era5", "modis_snow", "goes16", "gpm">>

\* regions = {'india': [...], 'north america': [...]}
Regions(region) ==
  IF region = "india" THEN <<37, 68, 6, 97>> ELSE <<60, 0 - 130, 20, 0 - 60>>

\* str(datetime.now().year)
Str(n) == IF n = 2023 THEN "2023" ELSE IF n = 2025 THEN "2025" ELSE "2026"

\* int(parsed['year']), int(parsed['month'])
int(s) ==
  CASE s = "2023" -> 2023
    [] s = "2025" -> 2025
    [] s = "2026" -> 2026
    [] s = "01" -> 1
    [] s = "06" -> 6
    [] s = "12" -> 12

\* DEFAULT_CONFIG as load_config returns it
DefaultConfig == [datasets |-> DatasetOrder, area |-> Regions("north america")]

\* parse_natural_query(query) when load_config returns config
parse_natural_query(query, config, now) ==
  LET ds == config.datasets
      found == {k \in DOMAIN ds : Contains(query, ds[k])}
      years == {i \in DOMAIN query : YearToken(Lower(query[i]))}
      region == IF Contains(query, "india") THEN "india" ELSE "north america"
  IN [dataset |-> IF found = {} THEN "gpm"
                  ELSE ds[CHOOSE k \in found : \A j \in found : k <= j],
      year |-> IF years = {} THEN Str(now.year)
               ELSE Lower(query[CHOOSE i \in years : \A j \in years : i <= j]),
      month |-> IF Contains(query, "summer") THEN "06"
                ELSE IF Contains(query, "winter") THEN "12"
                ELSE "01",
      config |-> [config EXCEPT !.area = Regions(region)]]

-----------------------------------------------------------------------------
(* download_all *)

\* datetime.now(), as year and month
Today == [year |-> 2026, month |-> 10]

\* next_month, next_year of the enumeration loop
NextMonth(c) ==
  [year |-> IF c.month < 12 THEN c.year ELSE c.year + 1,
   month |-> IF c.month < 12 THEN c.month + 1 ELSE 1]

\* a loop that stops before the current month: current_date < end_date
NotAfterStrict(current, end) ==
  current.year < end.year \/ (current.year = end.year /\ current.month < end.month)

\* while current_date <= end_date
NotAfter(current, end) ==
  current.year < end.year \/ (current.year = end.year /\ current.month <= end.month)

RECURSIVE MonthsFrom(_, _)
MonthsFrom(current, end) ==
  IF NotAfter(current, end)
    THEN <<current>> \o MonthsFrom(NextMonth(current), end)
    ELSE <<>>

\* the dates of the full work matrix
Dates(now) ==
  MonthsFrom([year |-> now.year - YearsBack, month |-> now.month], now)

\* the locals config and parsed before their assignments
NoConfig == [datasets |-> <<>>, area |-> <<>>]

NoParsed ==
  [dataset |-> "none", year |-> "none", month |-> "none", config |-> NoConfig]

\* download_all has not been called
NoRun ==
  [pc |-> "idle", query |-> <<>>, dry_run |-> FALSE, aws_bucket |-> FALSE,
   config |-> NoConfig, parsed |-> NoParsed,
   dates |-> <<>>, datasets |-> <<>>, notifier |-> FALSE, i |-> 0,
   max_workers |-> 0, seen |-> 0, futures |-> <<>>, ticks |-> 0,
   steps |-> {}, packaged |-> {}, error |-> "none", raised |-> "none"]

\* `except Exception as e: notifier.notify(...); raise`: the local name
\* notifier is bound at line 598 only
RunExcept(r, err) ==
  [r EXCEPT !.pc = "raised", !.error = err,
            !.raised = IF r.notifier THEN err ELSE "UnboundLocalError"]

RunNotes(r, ns) ==
  IF r.notifier THEN notify(ns, "ERROR", "pipeline execution failed", "run", 0)
  ELSE ns

\* what load_config() can return: DEFAULT_CONFIG, or the content of a
\* configuration file that lists none, one or two of the datasets
Configs ==
  {DefaultConfig,
   [DefaultConfig EXCEPT !.datasets = <<>>],
   [DefaultConfig EXCEPT !.datasets = <<"gpm">>],
   [DefaultConfig EXCEPT !.datasets = <<"goes16", "gpm">>],
   [DefaultConfig EXCEPT !.datasets = <<"era5", "goes16">>]}

\* the calls download_all(query, dry_run, aws_bucket) that are followed, for
\* the configuration that load_config returns.  A run for a query uses the
\* default configuration, and one for a query of more than two words is
\* followed on an empty data directory in the namespace as shipped.  A run
\* over the work matrix starts on an empty data directory against sources
\* that answer: with at most one dataset it is followed to its end, on the directory
\* of all its dates; with the four datasets of the default configuration in
\* the namespace as shipped; with era5 and goes16 against sources that serve
\* valid products fast.  dry_run and aws_bucket are set for the queries of at
\* most one word on an empty directory, against such sources (dry_run over
\* the matrix of at most two datasets, aws_bucket over the matrix of goes16
\* and gpm alone)
Followed(query, loaded, dry_run, aws_bucket) ==
  LET empty == {p \in DOMAIN disk : disk[p].exists} = {}
      plain == /\ remote.times = {2}
               /\ remote.bodies = {"good"}
               /\ remote.answers = {"ok"}
               /\ globals # {}
      n == Len(loaded.datasets)
  IN /\ DOMAIN disk = RunPaths <=> (query = <<>> /\ n <= 1)
     /\ query # <<>> => loaded \in {DefaultConfig, NoConfig}
     /\ Len(query) > 2 => (globals = {} /\ empty)
     /\ query = <<>> =>
          /\ "error" \notin remote.answers
          /\ empty
          /\ n = 4 => globals = {}
          /\ loaded.datasets = <<"era5", "goes16">> => plain
     /\ dry_run =>
          (Len(query) <= 1 /\ empty /\ plain /\ (query = <<>> => n <= 2))
     /\ aws_bucket =>
          /\ Len(query) <= 1 /\ empty /\ plain
          /\ query = <<>> => loaded.datasets = <<"goes16", "gpm">>

\* download_all(query, dry_run, aws_bucket): config = load_config()
download_all ==
  /\ run.pc = "idle"
  /\ \E query \in Queries, loaded \in Configs \cup {NoConfig},
        dry_run \in BOOLEAN, aws_bucket \in BOOLEAN :
       LET r == [run EXCEPT !.query = query, !.dry_run = dry_run,
                            !.aws_bucket = aws_bucket]
       IN /\ Followed(query, loaded, dry_run, aws_bucket)
          /\ IF loaded = NoConfig
               THEN /\ run' = RunExcept(r, "config error")
                    /\ notes' = RunNotes(r, notes)
               ELSE /\ run' = [r EXCEPT !.config = loaded,
                                        !.pc = IF query # <<>> THEN "parse"
                                               ELSE "matrix"]
                    /\ UNCHANGED notes
  /\ UNCHANGED <<disk, remote, globals, pool, dl, call, ncalls, faults, cache,
                 transaction_log, download_metrics, bucket, optimizer, returned>>

\* Downloader(), Validator(), Notifier(), Storage(), Pipeline(...), Optimizer()
Constructed(r) == [r EXCEPT !.notifier = TRUE, !.pc = "batch", !.i = 1]

\* if query: parsed = parse_natural_query(query); config, dates, datasets
run_parse ==
  /\ run.pc = "parse"
  /\ \/ \* load_config raises inside parse_natural_query, which re-raises
        /\ run' = RunExcept(run, "config error")
        /\ notes' = RunNotes(run, notes)
     \/ LET parsed == parse_natural_query(run.query, run.config, remote.now)
        IN /\ run' = Constructed(
                       [run EXCEPT
                          !.parsed = parsed,
                          !.config = parsed.config,
                          !.dates = <<[year |-> int(parsed.year),
                                       month |-> int(parsed.month)]>>,
                          !.datasets = <<parsed.dataset>>])
           /\ UNCHANGED notes
  /\ UNCHANGED <<disk, remote, globals, pool, dl, call, ncalls, faults, cache,
                 transaction_log, download_metrics, bucket, optimizer, returned>>

\* else: the dates of the last five years, datasets = config['datasets'].keys()
run_matrix ==
  /\ run.pc = "matrix"
  /\ run' = Constructed([run EXCEPT !.dates = Dates(remote.now),
                                    !.datasets = run.config.datasets])
  /\ UNCHANGED <<disk, remote, globals, pool, dl, pipeVars, optimizer, returned>>

\* for date in dates: max_workers = optimizer.predict_workers(response_times);
\* with ThreadPoolExecutor(max_workers=max_workers) as executor:
\* futures = [executor.submit(pipeline.process, dataset, date, ...) ...].  On a
\* configuration of several datasets the run is followed for MaxRunCalls calls
run_submit ==
  /\ run.pc = "batch"
  /\ \/ Len(run.datasets) = 1
     \/ Len(run.futures) + Len(run.datasets) <= MaxRunCalls
  /\ \E psutil_ok \in BOOLEAN :
       LET max_workers == predict_workers(optimizer.historical_data,
                                          download_metrics.response_times,
                                          psutil_ok, 0)
       IN /\ run' = [run EXCEPT
                       !.pc = "wait",
                       !.seen = Len(download_metrics.response_times),
                       !.max_workers = max_workers,
                       !.futures =
                         @ \o [k \in DOMAIN run.datasets |->
                                 [date |-> run.dates[run.i],
                                  month |-> run.i,
                                  dataset |-> run.datasets[k],
                                  state |-> "queued"]]]
          /\ pool' = 1..max_workers
  /\ UNCHANGED <<disk, remote, globals, dl, pipeVars, optimizer, returned>>

\* a thread of the pool that has no call takes the oldest queued work item:
\* pipeline.process(dataset, date, config, dry_run, aws_bucket).  The threads
\* are interchangeable and the free thread of lowest number stands for them
future_start ==
  /\ run.pc = "wait"
  /\ \E k \in DOMAIN run.futures, w \in pool \cap Workers :
       /\ run.futures[k].state = "queued"
       /\ \A j \in 1..(k - 1) : run.futures[j].state # "queued"
       /\ call[w].pc = "idle"
       /\ \A v \in 1..(w - 1) : call[v].pc # "idle"
       /\ run' = [run EXCEPT !.futures[k].state = "running"]
       /\ call' = [call EXCEPT ![w] =
                     [IdleCall EXCEPT !.pc = "taken",
                                      !.dataset = run.futures[k].dataset,
                                      !.month = run.futures[k].month,
                                      !.dry_run = run.dry_run,
                                      !.aws_bucket = run.aws_bucket,
                                      !.id = k]]
  /\ UNCHANGED <<disk, remote, globals, pool, dl, ncalls, faults, cache,
                 transaction_log, download_metrics, notes, bucket, optimizer,
                 returned>>

\* the thread w runs its call of process up to start_download, while the
\* other threads of the pool run theirs; the later steps of the call are
\* those of CallStep
future_call(w) ==
  /\ call[w].pc = "taken"
  /\ ncalls' = ncalls + 1
  /\ process_enter(w, call[w])
  /\ UNCHANGED <<disk, remote, globals, pool, dl, faults, cache,
                 download_metrics, bucket, optimizer, returned, run>>

\* the call of pipeline.process on thread w has returned: the future is done
\* and the thread is free for the next work item of the queue
future_return(w) ==
  /\ run.pc \in {"wait", "metrics", "package", "cache", "summary", "done", "raised"}
  /\ call[w].pc = "returned"
  /\ run.futures[call[w].id].state = "running"
  /\ run' = [run EXCEPT !.futures[call[w].id].state = "done"]
  /\ call' = [call EXCEPT ![w] = IdleCall]
  /\ UNCHANGED <<disk, remote, globals, pool, dl, ncalls, faults, cache,
                 transaction_log, download_metrics, notes, bucket, optimizer,
                 returned>>

\* lines 609-610, on the main thread: as_completed hands over a future that
\* is done and has not been handed over yet, and pbar.update(1) counts it
progress_tick ==
  /\ run.pc = "wait"
  /\ run.ticks < Cardinality({k \in DOMAIN run.futures :
                                run.futures[k].state = "done"})
  /\ run' = [run EXCEPT !.ticks = @ + 1]
  /\ UNCHANGED <<disk, remote, globals, pool, dl, pipeVars, optimizer, returned>>

\* a driver that moves on without waiting for its futures
BatchDoneNow(futures, ticks) == TRUE

\* the loop over as_completed has counted every future, and leaving
\* `with ThreadPoolExecutor(...)` finds every future of the batch done
BatchDone(futures, ticks) ==
  /\ \A k \in DOMAIN futures : futures[k].state = "done"
  /\ ticks = Len(futures)

\* the end of the body of `for date in dates`
run_join ==
  /\ run.pc = "wait"
  /\ BatchDone(run.futures, run.ticks)
  /\ run' = [run EXCEPT !.i = @ + 1,
                        !.pc = IF run.i < Len(run.dates) THEN "batch"
                               ELSE "metrics"]
  /\ UNCHANGED <<disk, remote, globals, pool, dl, pipeVars, optimizer, returned>>

\* the anomaly check and json.dump(metrics) into LOG_FILE
end_metrics ==
  /\ run.pc = "metrics"
  /\ \/ /\ run' = [run EXCEPT !.pc = "package", !.steps = @ \cup {"metrics"}]
        /\ UNCHANGED notes
     \/ \* the file cannot be written
        /\ run' = RunExcept(run, "io error")
        /\ notes' = RunNotes(run, notes)
  /\ UNCHANGED <<disk, remote, globals, pool, dl, call, ncalls, faults, cache,
                 transaction_log, download_metrics, bucket, optimizer, returned>>

\* f.split('_')[0] of the file name of an artifact of dataset d
Prefix(d) == IF d = "modis_snow" THEN "modis" ELSE d

\* files = [f for f in os.listdir(DATA_DIR) if f.endswith(('.nc', '.hdf',
\* '.hdf5'))]
Listed(dir) ==
  {p \in DOMAIN dir : dir[p].exists /\ p.ext \in {"nc", "hdf", "hdf5"}}

\* the files of the data directory as the calls and earlier runs left them,
\* the validation of each against config['datasets'][f.split('_')[0]], and
\* create_data_package(valid_files), which writes the archive alone
end_package ==
  /\ run.pc = "package"
  /\ LET files == Listed(disk)
         known == {run.config.datasets[k] : k \in DOMAIN run.config.datasets}
         valid == {p \in files :
                     validate_file(disk[p], p.ds, ExpectedVars(p.ds))}
     IN IF \E p \in files : Prefix(p.ds) \notin known
          THEN \* config['datasets'][f.split('_')[0]] raises KeyError
               /\ run' = RunExcept(run, "KeyError")
               /\ notes' = RunNotes(run, notes)
          ELSE /\ run' = [run EXCEPT
                            !.pc = "cache",
                            !.steps = @ \cup {"validated", "package"},
                            !.packaged = valid]
               /\ UNCHANGED notes
  /\ UNCHANGED <<disk, remote, globals, pool, dl, call, ncalls, faults, cache,
                 transaction_log, download_metrics, bucket, optimizer, returned>>

\* json.dump(pipeline.cache) into CACHE_LOG
end_cache ==
  /\ run.pc = "cache"
  /\ \/ /\ run' = [run EXCEPT !.pc = "summary", !.steps = @ \cup {"cache"}]
        /\ UNCHANGED notes
     \/ \* the file cannot be written
        /\ run' = RunExcept(run, "io error")
        /\ notes' = RunNotes(run, notes)
  /\ UNCHANGED <<disk, remote, globals, pool, dl, call, ncalls, faults, cache,
                 transaction_log, download_metrics, bucket, optimizer, returned>>

\* success_rate = success / total if total > 0 else 0; notify(..., 'INFO' if
\* success_rate >= 0.8 else 'ERROR'): without any work the rate is 0
end_summary ==
  /\ run.pc = "summary"
  /\ LET total == Len(run.dates) * Len(run.datasets)
     IN notes' = notify(notes,
                        IF total > 0 /\ download_metrics.success * 5 >= total * 4
                          THEN "INFO" ELSE "ERROR",
                        "completed", "run", 0)
  /\ run' = [run EXCEPT !.pc = "done", !.steps = @ \cup {"summary"}]
  /\ UNCHANGED <<disk, remote, globals, pool, dl, call, ncalls, faults, cache,
                 transaction_log, download_metrics, bucket, optimizer, returned>>

-----------------------------------------------------------------------------
(* Specifications *)

InitPipeline ==
  /\ call = [w \in Workers |-> IdleCall]
  /\ ncalls = 0
  /\ faults = 0
  /\ cache = <<>>
  /\ transaction_log = <<>>
  /\ download_metrics = NoMetrics
  /\ notes = <<>>
  /\ bucket = {}

InitOptimizer == optimizer = NoOptimizer

\* no function has been called directly
NoReturn == [fn |-> "none"]

InitReturned == returned = NoReturn /\ run = NoRun

\* calls of Pipeline.process, one at a time, on a fresh Pipeline and an empty
\* data directory; the module namespace is as shipped (neither `time` nor
\* `config` is bound) or has them bound by the hosting session
Init ==
  /\ remote = [bodies |-> {"good", "hot"}, sizes |-> {0, 2},
               serves |-> {"range", "short"}, lag |-> {0}, answers |-> Answers, times |-> {2},
               now |-> Today]
  /\ globals \in SUBSET {"time", "config"}
  /\ pool = {1}
  /\ disk = [p \in Paths |-> NoFile]
  /\ dl = [w \in Workers |-> IdleDl]
  /\ InitPipeline
  /\ InitOptimizer
  /\ InitReturned

Next ==
  \/ \E w \in Workers : ProcessStep(w) \/ DownloadStep(w)
  \/ external_change

Spec == Init /\ [][Next]_vars

\* one direct call of Downloader.download on a data directory that holds
\* nothing or the files of earlier downloads
InitDownload ==
  /\ remote = [bodies |-> {"good"}, sizes |-> 0..MaxSize, serves |-> Servers,
               lag |-> {0, 1}, answers |-> Answers, times |-> {2}, now |-> Today]
  /\ globals = {}
  /\ pool = {1}
  /\ \E n \in 0..MaxSize :
       disk = [p \in Paths |->
                 IF p \in DownloadPaths /\ n > 0 THEN WholeFile("good", n)
                 ELSE NoFile]
  /\ dl = [w \in Workers |-> IdleDl]
  /\ InitPipeline
  /\ InitOptimizer
  /\ InitReturned

NextDownload == \E w \in Workers : download(w) \/ DownloadStep(w)

SpecDownload == InitDownload /\ [][NextDownload]_vars

\* calls of update_metrics and predict_workers on an Optimizer that is fresh
\* or has seen HistoryThreshold - 1 updates
InitHistory ==
  /\ remote = [bodies |-> {"good"}, sizes |-> {1}, serves |-> {"range"}, lag |-> {0}, answers |-> Answers, times |-> {2}, now |-> Today]
  /\ globals = {}
  /\ pool = {1}
  /\ disk = [p \in Paths |-> NoFile]
  /\ dl = [w \in Workers |-> IdleDl]
  /\ InitPipeline
  /\ InitReturned
  /\ \E n \in {0, HistoryThreshold - 1}, success \in SuccessValues :
       optimizer = [NoOptimizer EXCEPT
                      !.historical_data = [i \in 1..n |-> Row(2, 1, success)]]

NextOptimizer == update_metrics \/ predict

SpecOptimizer == InitHistory /\ [][NextOptimizer]_vars

\* the files validate_file may meet: none, an empty one, a truncated one, one
\* that cannot be read, and whole containers of each content
ValidatedFiles ==
  {NoFile, WholeFile("good", 0), PartFile(1, 2),
   [WholeFile("good", 1) EXCEPT !.readable = FALSE]}
    \cup {WholeFile(b, 1) : b \in {"good", "hot", "cold", "gap", "caps", "novar"}}

\* direct calls of validate_file on a data directory holding one file
InitValidate ==
  /\ remote = [bodies |-> {"good"}, sizes |-> {1}, serves |-> {"range"}, lag |-> {0}, answers |-> Answers, times |-> {2}, now |-> Today]
  /\ globals = {}
  /\ pool = {1}
  /\ \E d \in Datasets, m \in Months, f \in ValidatedFiles :
       disk = [p \in Paths |-> IF p = OutputFile(d, m) THEN f ELSE NoFile]
  /\ dl = [w \in Workers |-> IdleDl]
  /\ InitPipeline
  /\ InitOptimizer
  /\ InitReturned

NextValidate == \E w \in Workers : validate(w)

SpecValidate == InitValidate /\ [][NextValidate]_vars

\* the files an earlier run may have left in the data directory: none, or one
\* artifact that is empty, lacks the variable of its product, or is valid, or
\* an artifact of modis_snow
LeftFiles ==
  {<<NoPath, NoFile>>, <<StrategyFile("modis_snow", 1), WholeFile("good", 1)>>}
    \cup {<<StrategyFile(d, 1), f>> :
             d \in {"goes16", "gpm"},
             f \in {PartFile(0, 1), WholeFile("novar", 1), WholeFile("good", 1)}}

\* one call of download_all (see Followed for its arguments), in the
\* namespace as shipped or with `time` and `config` bound, in October or
\* December, on a data directory that is empty or holds a file of an earlier
\* run.  The sources answer every request of a run in the same way: they
\* serve valid products fast or slowly, or products with out-of-range values,
\* or nothing.  No executor exists before the first batch
InitRun ==
  /\ \E times \in {{2}, {9}}, month \in {10, 12}, bodies \in {{"good"}, {"hot"}},
        answers \in {{"ok"}, {"error"}}, left \in LeftFiles,
        dir \in {FollowedPaths, RunPaths} :
       /\ remote = [bodies |-> bodies, sizes |-> {1}, serves |-> {"range"},
                    lag |-> {0}, answers |-> answers, times |-> times,
                    now |-> [Today EXCEPT !.month = month]]
       /\ disk = [p \in dir |-> IF p = left[1] THEN left[2] ELSE NoFile]
       /\ globals \in {{}, {"time", "config"}}
       /\ dir = RunPaths => (left[1] = NoPath /\ answers = {"ok"})
       /\ month = 12 => (globals = {} /\ dir = RunPaths)
       /\ (times = {9} \/ bodies = {"hot"} \/ answers = {"error"}) =>
            (globals # {} /\ month = 10 /\ left[1] = NoPath)
       /\ Cardinality({x \in {1, 2, 3} :
                         \/ x = 1 /\ times = {9}
                         \/ x = 2 /\ bodies = {"hot"}
                         \/ x = 3 /\ answers = {"error"}}) <= 1
  /\ pool = {}
  /\ dl = [w \in Workers |-> IdleDl]
  /\ InitPipeline
  /\ InitOptimizer
  /\ InitReturned

\* the steps of the call of process that thread w of the pool is in
CallStep(w) ==
  \/ start_time(w)
  \/ download_era5(w)
  \/ download_listing(w)
  \/ download_returned(w)
  \/ download_goes16(w)
  \/ stamp(w)
  \/ DownloadStep(w)
  \/ TailStep(w)
  \/ tail_upload(w)
  \/ except_notify(w)
  \/ except_log(w)

NextRun ==
  \/ download_all
  \/ run_parse
  \/ run_matrix
  \/ run_submit
  \/ future_start
  \/ \E w \in Workers : future_call(w) \/ future_return(w) \/ CallStep(w)
  \/ progress_tick
  \/ run_join
  \/ end_metrics
  \/ end_package
  \/ end_cache
  \/ end_summary

SpecRun == InitRun /\ [][NextRun]_vars

\* what the fetch strategy of a call left behind: nothing, a valid artifact or
\* an artifact with out-of-range values
Fetches == {"none", "good", "hot"}

\* the call of worker w for dataset d, its strategy returned
FetchedCall(w, d, fetch) ==
  [IdleCall EXCEPT !.pc = "fetched", !.dataset = d, !.month = 1, !.id = w,
                   !.attempts = 1,
                   !.success = IF fetch = "none" THEN "false" ELSE "true"]

\* two calls of one batch, for modis_snow and gpm, on two threads of the pool
\* of download_all, in a namespace that binds `time` and `config`: both have
\* logged start_download and their strategies have returned
InitRace ==
  /\ remote = [bodies |-> {"good", "hot"}, sizes |-> {1}, serves |-> {"range"}, lag |-> {0}, answers |-> Answers, times |-> {2},
               now |-> Today]
  /\ globals = {"time", "config"}
  /\ pool = {1, 2}
  /\ dl = [w \in Workers |-> IdleDl]
  /\ InitOptimizer
  /\ InitReturned
  /\ \E f1 \in Fetches, f2 \in Fetches :
       LET ds == <<"modis_snow", "gpm">>
           fs == <<f1, f2>>
       IN /\ call = [w \in Workers |->
                       IF w \in {1, 2} THEN FetchedCall(w, ds[w], fs[w])
                       ELSE IdleCall]
          /\ disk = [p \in Paths |->
                       IF \E w \in {1, 2} :
                            p = StrategyFile(ds[w], 1) /\ fs[w] # "none"
                         THEN LET w == CHOOSE v \in {1, 2} : p = StrategyFile(ds[v], 1)
                              IN [WholeFile(fs[w], 1) EXCEPT !.stamp = w]
                         ELSE NoFile]
  /\ ncalls = 2
  /\ faults = 0
  /\ cache = <<>>
  /\ transaction_log =
       log_transaction(
         log_transaction(<<>>, "start_download", "modis_snow", 1, "date", 1),
         "start_download", "gpm", 1, "date", 2)
  /\ download_metrics = NoMetrics
  /\ notes = <<>>
  /\ bucket = {}

NextRace == \E w \in Workers : TailStep(w)

SpecRace == InitRace /\ [][NextRace]_vars

-----------------------------------------------------------------------------
(* Properties of Downloader.download, under SpecDownload *)

\* C9: once the size is known, the ranges handed to the chunk fetches partition
\* the bytes 0..file_size-1: every byte lies in exactly one range, and every
\* range is non-empty and inside the file
C9_ChunkCoverage ==
  \A w \in Workers :
    dl[w].pc \in {"fetch", "write"} =>
      LET r == dl[w].ranges
          n == dl[w].file_size
      IN /\ r[1][1] = 0
         /\ r[Len(r)][2] = n - 1
         /\ \A k \in 1..(Len(r) - 1) : r[k + 1][1] = r[k][2] + 1
         /\ \A b \in 0..(n - 1) :
              Cardinality({k \in DOMAIN r : r[k][1] <= b /\ b <= r[k][2]}) = 1
         /\ \A k \in DOMAIN r :
              0 <= r[k][1] /\ r[k][1] <= r[k][2] /\ r[k][2] <= n - 1

\* a download split into three ranges, the last shorter than the others
C9_Witness ==
  \E w \in Workers :
    /\ dl[w].pc = "fetch"
    /\ Len(dl[w].ranges) = 3
    /\ dl[w].ranges[3][2] - dl[w].ranges[3][1] < dl[w].ranges[1][2] - dl[w].ranges[1][1]

\* C10 as stated: the bytes are split into exactly num_threads ranges, each of
\* at least the chunk_size asked for
C10_ExactlyThreadCount ==
  \A w \in Workers :
    dl[w].pc \in {"fetch", "write"} =>
      /\ Len(dl[w].ranges) = dl[w].num_threads
      /\ \A k \in DOMAIN dl[w].ranges :
           dl[w].ranges[k][2] - dl[w].ranges[k][1] + 1 >= dl[w].asked

\* C10, amended: with c the larger of the chunk_size asked for and
\* file_size div num_threads, the bytes are split into ceil(file_size / c)
\* ranges; every range but the last spans exactly c bytes and the last spans
\* 1..c bytes; there are exactly num_threads ranges of at least chunk_size
\* bytes when num_threads divides file_size and file_size >= num_threads *
\* chunk_size
C10_ChunkCount ==
  \A w \in Workers :
    dl[w].pc \in {"fetch", "write"} =>
      LET r == dl[w].ranges
          n == dl[w].file_size
          t == dl[w].num_threads
          a == dl[w].asked
          c == IF a >= n \div t THEN a ELSE n \div t
          span(k) == r[k][2] - r[k][1] + 1
      IN /\ Len(r) = (n + c - 1) \div c
         /\ \A k \in 1..(Len(r) - 1) : span(k) = c
         /\ span(Len(r)) >= 1 /\ span(Len(r)) <= c
         /\ (n % t = 0 /\ n >= t * a) =>
              (Len(r) = t /\ \A k \in DOMAIN r : span(k) >= a)

\* two threads, chunk_size 2, five bytes: three ranges, the last of one byte
C10_Witness ==
  \E w \in Workers :
    /\ dl[w].pc = "fetch"
    /\ dl[w].num_threads = 2
    /\ dl[w].asked = 2
    /\ Len(dl[w].ranges) = 3
    /\ dl[w].ranges[3][2] = dl[w].ranges[3][1]

\* C2: at every instant of a call of download the destination is absent or a
\* complete file (all the bytes of the body it was downloaded from), after a
\* successful return a complete file of the size this call probed; the
\* destination changes in one step only, the rename of a temporary file that
\* holds as many bytes as were probed
C2_Atomicity ==
  /\ [](\A p \in DownloadPaths : ~disk[p].exists \/ Complete(disk[p]))
  /\ [](\A w \in Workers :
          (dl[w].pc = "done" /\ dl[w].result = "true") =>
            /\ Complete(disk[dl[w].output_file])
            /\ disk[dl[w].output_file].len = dl[w].file_size)
  /\ [][\A p \in DownloadPaths :
          disk'[p] # disk[p] =>
            \E w \in Workers :
              /\ dl[w].output_file = p
              /\ dl[w].pc = "write"
              /\ dl[w].written = Len(dl[w].ranges)
              /\ disk[TempFile(p)].len = dl[w].file_size
              /\ disk'[p].len = dl[w].file_size
              /\ disk'[p].total = dl[w].file_size
              /\ ~disk'[TempFile(p)].exists
              /\ dl'[w].pc = "done"
              /\ dl'[w].result = "true"]_vars

\* C8 as stated: a download in which an error was raised is run again as a
\* unit, and returns false only after the third attempt
C8_RetryAsUnit ==
  \A w \in Workers :
    (dl[w].pc = "done" /\ dl[w].errors > 0 /\ dl[w].result = "false") =>
      dl[w].attempt = StopAfterAttempt

-----------------------------------------------------------------------------
(* Properties of Optimizer.predict_workers, under SpecOptimizer *)

\* C6: whatever the response times, the history, the prediction of the model
\* and the answer of the load sensors, predict_workers returns an integer in
\* 1..5
C6_WorkersInRange ==
  optimizer.predicted.made => optimizer.predicted.workers \in 1..5

\* a prediction of 2.0 on a history of more than ten rows: 6 is cut to 5
C6_Witness ==
  /\ optimizer.predicted.made
  /\ Len(optimizer.historical_data) > HistoryThreshold
  /\ Trunc(optimizer.predicted.pred * 3, 100) > 5
  /\ optimizer.predicted.workers = 5

-----------------------------------------------------------------------------
(* Properties of Pipeline.process, under Spec *)

\* C1: a call of process for an item whose artifact is on disk with the digest
\* an earlier call recorded in its complete_download returns true as a cache
\* hit in one step: no strategy runs, no download starts, the disk and the
\* transaction log stay as they are
C1_Idempotence ==
  [][\A w \in Workers :
       LET d == call'[w].dataset
           m == call'[w].month
       IN (/\ call'[w].id # call[w].id
           /\ d \in Datasets
           /\ disk[OutputFile(d, m)].exists
           /\ \E i \in DOMAIN transaction_log :
                /\ transaction_log[i].action = "complete_download"
                /\ transaction_log[i].dataset = d
                /\ transaction_log[i].month = m
                /\ transaction_log[i].info = compute_sha256(disk[OutputFile(d, m)]))
          => /\ call'[w].pc = "returned"
             /\ call'[w].ret = "true"
             /\ call'[w].hit
             /\ call'[w].attempts = 0
             /\ dl' = dl
             /\ disk' = disk
             /\ transaction_log' = transaction_log]_vars

\* a second call returned from the cache after an earlier call completed the
\* download of the same item
C1_Witness ==
  \E w \in Workers :
    /\ call[w].pc = "returned"
    /\ call[w].hit
    /\ call[w].ret = "true"
    /\ \E i \in DOMAIN transaction_log :
         /\ transaction_log[i].action = "complete_download"
         /\ transaction_log[i].dataset = call[w].dataset
         /\ transaction_log[i].month = call[w].month
         /\ transaction_log[i].timestamp < call[w].id

\* C3 as stated: when the strategy reported success and validation refused the
\* file, process returns false, a rollback_download 'validation failed' is
\* logged, and the downloaded file is gone from the data directory
C3_Rollback ==
  \A w \in Workers :
    (/\ call[w].pc = "returned"
     /\ call[w].success = "true"
     /\ ~call[w].dry_run
     /\ call[w].valid = "false")
    => /\ call[w].ret = "false"
       /\ \E i \in DOMAIN transaction_log :
            /\ transaction_log[i].action = "rollback_download"
            /\ transaction_log[i].info = "validation failed"
            /\ transaction_log[i].timestamp = call[w].id
       /\ ~disk[OutputFile(call[w].dataset, call[w].month)].exists
       /\ ~disk[StrategyFile(call[w].dataset, call[w].month)].exists

\* C4 as stated: every failure of a stage (fetch, validation, checksum, cache
\* and metrics update, upload) makes process return false, notify an error and
\* record a fail_download
C4_EveryFailureReported ==
  \A w \in Workers :
    (/\ call[w].pc = "returned"
     /\ call[w].dataset \in Datasets
     /\ \/ call[w].success \in {"false", "raise"}
        \/ call[w].valid = "false"
        \/ call[w].valid = "true" /\ call[w].file_hash = None
        \/ call[w].caught
        \/ call[w].upload = "failed")
    => /\ call[w].ret = "false"
       /\ \E i \in DOMAIN notes :
            notes[i].level = "ERROR" /\ notes[i].timestamp = call[w].id
       /\ \E i \in DOMAIN transaction_log :
            /\ transaction_log[i].action = "fail_download"
            /\ transaction_log[i].timestamp = call[w].id

\* C4, amended: process never raises.  An exception raised in its own body is
\* caught: error notification, fail_download, false.  A fetch, validation or
\* checksum failure is a false result of that stage: fail_download and false,
\* without a notification.  A failed upload is swallowed: process returns true.
C4_NoEscape ==
  \A w \in Workers :
    (call[w].pc = "returned" /\ call[w].dataset \in Datasets) =>
      LET noted == \E i \in DOMAIN notes :
                     notes[i].level = "ERROR" /\ notes[i].timestamp = call[w].id
          failed == \E i \in DOMAIN transaction_log :
                      /\ transaction_log[i].action = "fail_download"
                      /\ transaction_log[i].timestamp = call[w].id
      IN /\ call[w].ret \in {"true", "false"}
         /\ call[w].caught => (call[w].ret = "false" /\ noted /\ failed)
         /\ (/\ ~call[w].caught
             /\ \/ call[w].success = "false"
                \/ call[w].valid = "false"
                \/ call[w].valid = "true" /\ call[w].file_hash = None)
            => (call[w].ret = "false" /\ failed /\ ~noted)
         /\ call[w].upload = "failed" => call[w].ret = "true"

\* the artifact vanished between the checksum and the metrics update: the
\* exception of os.path.getsize was caught and turned into false
C4_Witness ==
  \E w \in Workers :
    /\ call[w].pc = "returned"
    /\ call[w].caught
    /\ call[w].valid = "true"
    /\ call[w].ret = "false"

\* C5 as stated: a dry-run call of process for a known dataset returns true
C5_DryRunSucceeds ==
  \A w \in Workers :
    (call[w].pc = "returned" /\ call[w].dry_run /\ call[w].dataset \in Datasets)
      => call[w].ret = "true"

\* C7 as stated: a strategy whose attempt met a transport error and that
\* reported failure was attempted three times (era5, modis_snow, gpm) or once
\* (goes16)
C7_StrategyRetryBound ==
  \A w \in Workers :
    (/\ call[w].pc = "returned"
     /\ ~call[w].dry_run
     /\ call[w].neterr
     /\ call[w].success = "false")
    => call[w].attempts = IF call[w].dataset = "goes16" THEN 1
                          ELSE StopAfterAttempt

\* C11 as stated: with at most ten rows of history predict_workers returns 3
\* for no response times, 3 when their mean is below 5, and 1 otherwise, a mean
\* of exactly 5 included
C11_BootstrapRuleStated ==
  (/\ optimizer.predicted.made
   /\ optimizer.predicted.history <= 10)
  => LET rt == optimizer.predicted.response_times
     IN optimizer.predicted.workers =
          IF rt = <<>> THEN 3
          ELSE IF Sum(rt) < 5 * Len(rt) THEN 3
          ELSE 1

\* C11: with at most ten rows of history predict_workers returns 3 for no
\* response times; for given response times it returns 3 when the load sensors
\* raise, whatever the mean, and when they answer 3 for a mean below 5 and 1
\* otherwise, a mean of exactly 5 included
C11_BootstrapRule ==
  (/\ optimizer.predicted.made
   /\ optimizer.predicted.history <= 10)
  => LET rt == optimizer.predicted.response_times
     IN optimizer.predicted.workers =
          IF rt = <<>> THEN 3
          ELSE IF ~optimizer.predicted.psutil_ok THEN 3
          ELSE IF Sum(rt) < 5 * Len(rt) THEN 3
          ELSE 1

\* response times 1 and 9 on a short history, the sensors answering: the mean
\* is exactly 5, one worker
C11_Witness ==
  /\ optimizer.predicted.made
  /\ optimizer.predicted.psutil_ok
  /\ optimizer.predicted.history <= 10
  /\ Len(optimizer.predicted.response_times) = 2
  /\ Sum(optimizer.predicted.response_times) = 10
  /\ optimizer.predicted.workers = 1

\* response times 9 and 9 on a short history, the sensors raising: three
\* workers although the mean is 9
C11_WitnessRaised ==
  /\ optimizer.predicted.made
  /\ ~optimizer.predicted.psutil_ok
  /\ optimizer.predicted.history <= 10
  /\ Len(optimizer.predicted.response_times) = 2
  /\ Sum(optimizer.predicted.response_times) = 18
  /\ optimizer.predicted.workers = 3

-----------------------------------------------------------------------------
(* Properties of Validator.validate_file, under SpecValidate *)

\* C12 as stated: validate_file returns true exactly when the file exists, is
\* not empty and can be read, every expected variable is present, and every
\* value of every variable named like a temperature lies in 200..350
C12_ValidExactly ==
  returned.fn = "validate_file" =>
    LET f == returned.file
        vs == DsVariables(returned.dataset, f.body)
    IN returned.value \in BOOLEAN
       /\ (returned.value <=>
             /\ f.exists /\ f.len > 0
             /\ Opens(f)
             /\ returned.expected_vars \subseteq vs
             /\ \A var \in vs \cap {"skin_temperature", "Sea_Surface_Temperature"} :
                  /\ ~DsMissing(f.body, var)
                  /\ \A x \in DsValues(f.body, var) : 200 <= x /\ x <= 350)

\* C12, amended: validate_file returns true exactly when the file exists, is
\* not empty and can be read, every expected variable is present, and no value
\* of a variable named like a temperature is below 200 or above 350; a missing
\* value (NaN) is neither and passes
C12_ValidUnlessOutOfRange ==
  returned.fn = "validate_file" =>
    LET f == returned.file
        vs == DsVariables(returned.dataset, f.body)
    IN returned.value \in BOOLEAN
       /\ (returned.value <=>
             /\ f.exists /\ f.len > 0
             /\ Opens(f)
             /\ returned.expected_vars \subseteq vs
             /\ \A var \in vs \cap {"skin_temperature", "Sea_Surface_Temperature"} :
                  \A x \in DsValues(f.body, var) : 200 <= x /\ x <= 350)

\* a file whose temperature variable holds NaN beside values in range is valid
C12_Witness ==
  /\ returned.fn = "validate_file"
  /\ returned.file.body = "gap"
  /\ returned.value = TRUE

-----------------------------------------------------------------------------
(* Further properties of Pipeline.process, under Spec *)

\* C14: a call of process with a dataset id that is not configured returns
\* false in one step with one ERROR notification; no strategy is attempted, no
\* download starts, and the transaction log, the metrics, the cache and the
\* disk stay as they are
C14_UnknownDataset ==
  [][\A w \in Workers :
       (/\ call'[w].id # call[w].id
        /\ call'[w].dataset \notin {"era5", "modis_snow", "goes16", "gpm"})
       => /\ call'[w].pc = "returned"
          /\ call'[w].ret = "false"
          /\ call'[w].attempts = 0
          /\ Len(notes') = Len(notes) + 1
          /\ notes'[Len(notes')].level = "ERROR"
          /\ notes'[Len(notes')].msg = "invalid dataset"
          /\ transaction_log' = transaction_log
          /\ download_metrics' = download_metrics
          /\ cache' = cache
          /\ disk' = disk
          /\ dl' = dl]_vars

\* a call for an unknown dataset has returned false
C14_Witness ==
  \E w \in Workers :
    /\ call[w].pc = "returned"
    /\ call[w].dataset = "unknown"
    /\ call[w].ret = "false"
    /\ \E i \in DOMAIN notes :
         notes[i].msg = "invalid dataset" /\ notes[i].timestamp = call[w].id

\* C15 as stated: every call of process for a known dataset that returned
\* false left exactly one fail_download record, and the failure counter counts
\* these calls
C15_FailureAccounting ==
  /\ \A w \in Workers :
       (/\ call[w].pc = "returned"
        /\ call[w].dataset \in Datasets
        /\ call[w].ret = "false")
       => Cardinality({i \in DOMAIN transaction_log :
                        /\ transaction_log[i].action = "fail_download"
                        /\ transaction_log[i].timestamp = call[w].id}) = 1
  /\ download_metrics.failures =
       Cardinality({i \in DOMAIN transaction_log :
                     transaction_log[i].action = "fail_download"})

\* C18 as stated: a readable file under the name a strategy or process gives
\* the artifact is complete and passes validation
C18_ArtifactInvariant ==
  \A d \in Datasets, m \in Months :
    \A p \in {OutputFile(d, m), StrategyFile(d, m)} :
      (disk[p].exists /\ disk[p].readable) =>
        (Complete(disk[p]) /\ validate_file(disk[p], d, {}))


-----------------------------------------------------------------------------
(* Properties of download_all, under SpecRun *)

\* C13: once a query is parsed, the dataset is a configured id occurring in
\* the query (in any letter case) and gpm when none occurs; the year is a 20xx
\* token of the query and the current year when there is none; the month is a
\* month of a season keyword of the query and 01 when there is none; the area
\* is that of india when the query names it and that of north america
\* otherwise; and the only calls of process the run submits are one call for
\* that dataset and the first day of that month.
C13_QueryParsing ==
  run.parsed.dataset # "none" =>
    LET q == run.query
        has(words) == \E i \in DOMAIN q : q[i] \in words
        ids == (IF has({"era5land"}) THEN {"era5"} ELSE {})
                 \cup (IF has({"GPM"}) THEN {"gpm"} ELSE {})
        tokens == {q[i] : i \in DOMAIN q} \cap {"2023", "2025"}
        months == (IF has({"summer"}) THEN {"06", "07", "08"} ELSE {})
                    \cup (IF has({"Winter"}) THEN {"12", "01", "02"} ELSE {})
        p == run.parsed
        y == CASE p.year = "2023" -> 2023
               [] p.year = "2025" -> 2025
               [] p.year = "2026" -> 2026
               [] OTHER -> 0
        m == CASE p.month = "06" -> 6
               [] p.month = "12" -> 12
               [] p.month = "01" -> 1
               [] OTHER -> 0
    IN /\ IF ids = {} THEN p.dataset = "gpm" ELSE p.dataset \in ids
       /\ IF tokens = {} THEN p.year = "2026" ELSE p.year \in tokens
       /\ IF months = {} THEN p.month = "01" ELSE p.month \in months
       /\ p.config.area = IF has({"India"}) THEN <<37, 68, 6, 97>>
                          ELSE <<60, 0 - 130, 20, 0 - 60>>
       /\ Len(run.futures) <= 1
       /\ run.pc \in {"wait", "metrics", "package", "cache", "summary", "done"}
            => Len(run.futures) = 1
       /\ \A k \in DOMAIN run.futures :
            /\ run.futures[k].dataset = p.dataset
            /\ run.futures[k].date = [year |-> y, month |-> m]

\* a run for the query "summer India" has processed gpm for June of the
\* current year over the area of india
C13_Witness ==
  /\ run.pc = "done"
  /\ run.query = <<"summer", "India">>
  /\ run.parsed.dataset = "gpm"
  /\ run.parsed.month = "06"
  /\ run.parsed.config.area = <<37, 68, 6, 97>>
  /\ Len(run.futures) = 1
  /\ run.futures[1].state = "done"


\* C16: a call of process that has started belongs to a date all of whose
\* predecessors' calls have returned; while a batch runs, the list given to
\* predict_workers was the response times of all the calls of the earlier
\* dates (one per call once time.time() can be called, none before), the
\* worker count is the bootstrap value for that list: 3 when it is empty or
\* its mean is below 5 seconds, else 1, or 3 when the load cannot be read, and
\* no more calls than that are under way at once.
C16_BatchBarrier ==
  LET fs == run.futures
      earlier(a, b) ==
        a.year < b.year \/ (a.year = b.year /\ a.month < b.month)
      before == {j \in DOMAIN fs : earlier(fs[j].date, run.dates[run.i])}
      given == SubSeq(download_metrics.response_times, 1, run.seen)
      slow == \E n \in DOMAIN given : given[n] >= 5
      pending == {j \in DOMAIN fs : fs[j].state # "done"}
      started == {k \in DOMAIN fs : fs[k].state \in {"running", "done"}}
  IN /\ \A j \in pending : \A k \in started :
          ~earlier(fs[j].date, fs[k].date)
     /\ run.pc = "wait" =>
          /\ run.seen = IF "time" \in globals THEN Cardinality(before) ELSE 0
          /\ run.seen <= Len(download_metrics.response_times)
          /\ IF slow THEN run.max_workers \in {1, 3} ELSE run.max_workers = 3
          /\ Cardinality({k \in DOMAIN fs : fs[k].state = "running"})
               <= run.max_workers

\* in the second batch of a run over two datasets, whose worker count came
\* from the two response times of the first: both calls of the batch were
\* under way at once, and the second has returned before the first
C16_Witness ==
  /\ run.pc = "wait"
  /\ run.i = 2
  /\ run.seen = 2
  /\ run.max_workers = 3
  /\ Len(run.futures) = 4
  /\ run.futures[3].state = "running"
  /\ run.futures[4].state = "done"
  /\ transaction_log[Len(transaction_log) - 2].action = "start_download"
  /\ transaction_log[Len(transaction_log) - 2].dataset = "goes16"

\* a slow first batch lowers the worker count of the second to one: its
\* second call waits for the thread
C16_WitnessSlow ==
  /\ run.pc = "wait"
  /\ run.i = 2
  /\ run.seen = 2
  /\ run.max_workers = 1
  /\ run.futures[3].state = "running"
  /\ run.futures[4].state = "queued"
  /\ call[1].pc = "fetched"

\* the first batch of a run on the default configuration: three calls are
\* past start_download on the three threads of the pool and the fourth waits
C16_WitnessFull ==
  /\ run.pc = "wait"
  /\ run.i = 1
  /\ run.max_workers = 3
  /\ \A w \in 1..3 : call[w].pc = "started"
  /\ run.futures[4].state = "queued"
  /\ Len(transaction_log) = 3
  /\ transaction_log[1].dataset = "modis_snow"


\* C17: in a run without a query the dates are the 61 months from five years
\* before the current month to the current month, each the successor of the
\* one before (January of the next year after December); the calls submitted
\* so far are, date by date, one call for each of the configured datasets, so
\* that no pair is submitted twice and no other pair at all; whenever a batch
\* is over, every call submitted so far has been ticked; and once the batches
\* are over there are 61 calls for each configured dataset and as many ticks.
C17_WorkMatrix ==
  (run.query = <<>> /\ run.dates # <<>>) =>
    LET ids == run.config.datasets
        n == Len(ids)
        ds == run.dates
        fs == run.futures
    IN /\ Len(ds) = 61
       /\ ds[1] = [year |-> remote.now.year - 5, month |-> remote.now.month]
       /\ ds[61] = remote.now
       /\ \A k \in 1..60 :
            ds[k + 1] = IF ds[k].month = 12
                          THEN [year |-> ds[k].year + 1, month |-> 1]
                          ELSE [year |-> ds[k].year, month |-> ds[k].month + 1]
       /\ n = 4 => ids = <<"era5", "modis_snow", "goes16", "gpm">>
       /\ \A k \in DOMAIN fs :
            /\ fs[k].date = ds[((k - 1) \div n) + 1]
            /\ fs[k].dataset = ids[((k - 1) % n) + 1]
       /\ run.pc = "batch" =>
            (Len(fs) = (run.i - 1) * n /\ run.ticks = Len(fs))
       /\ run.i > 61 => (Len(fs) = 61 * n /\ run.ticks = 61 * n)

\* a run started in December on a configuration of one dataset has finished:
\* its second date is January of the next year and all 61 calls have been
\* submitted and ticked
C17_Witness ==
  /\ run.pc = "done"
  /\ run.query = <<>>
  /\ remote.now.month = 12
  /\ run.dates[2] = [year |-> 2022, month |-> 1]
  /\ run.config.datasets = <<"gpm">>
  /\ Len(run.futures) = 61
  /\ run.ticks = 61

\* the first batch of a run on the default configuration is over: its four
\* calls have been ticked; modis_snow failed first, gpm started on the thread
\* it left and failed before era5, the first to start
C17_WitnessBatch ==
  /\ run.pc = "batch"
  /\ run.query = <<>>
  /\ run.i = 2
  /\ Len(run.futures) = 4
  /\ run.ticks = 4
  /\ Len(transaction_log) = 8
  /\ transaction_log[1].dataset = "era5"
  /\ transaction_log[4].action = "fail_download"
  /\ transaction_log[4].dataset = "modis_snow"
  /\ transaction_log[5].dataset = "gpm"
  /\ transaction_log[6].dataset = "goes16"
  /\ transaction_log[7].dataset = "gpm"
  /\ transaction_log[8].dataset = "era5"


\* C19: a run that has failed has emitted an ERROR notification of the
\* failure, and the error that reaches the caller is the one that made it
\* fail.
C19_TopLevelFailure ==
  run.pc = "raised" =>
    /\ \E n \in DOMAIN notes :
         /\ notes[n].level = "ERROR"
         /\ notes[n].msg = "pipeline execution failed"
    /\ run.raised = run.error


\* C20: after the last batch a run fails only on a file that cannot be
\* written, whatever artifacts of the configured datasets the data directory
\* holds; and a run that has ended without failing has written the metrics
\* file, validated the artifacts, packaged exactly the valid ones, persisted
\* the cache and, last of all, emitted the summary notification.
C20_EndOfRun ==
  (run.dates # <<>> /\ run.i > Len(run.dates)) =>
    /\ run.pc = "raised" => run.error = "io error"
    /\ run.pc = "done" =>
         /\ run.steps = {"metrics", "validated", "package", "cache", "summary"}
         /\ run.packaged =
              {p \in DOMAIN disk :
                 /\ p.ext \in {"nc", "hdf", "hdf5"}
                 /\ disk[p].exists /\ disk[p].len > 0
                 /\ disk[p].len = disk[p].total
                 /\ disk[p].body = "good"
                 /\ p.ds # "era5"}
         /\ notes # <<>>
         /\ notes[Len(notes)].msg = "completed"


-----------------------------------------------------------------------------
(* The branches of Pipeline.process, under Spec *)

\* C21: the step of a call that has fetched, validated and hashed its
\* artifact sets the cache entry of the digest to the artifact path with an
\* access count one above the previous one (0 when absent), adds 1 to the
\* success counter, the elapsed time and the artifact size to the totals,
\* leaves the failure counter alone, appends complete_download with the digest
\* and returns true.
C21_ValidBranch ==
  [][\A w \in Workers :
       (call[w].pc = "commit" /\ call'[w].pc = "returned") =>
         LET c == call[w]
             out == [ds |-> c.dataset, month |-> c.month,
                     ext |-> IF c.dataset = "modis_snow" THEN "hdf" ELSE "hdf5"]
             h == c.file_hash
             before == IF h \in DOMAIN cache THEN cache[h].access_count ELSE 0
             last == transaction_log'[Len(transaction_log')]
         IN /\ h \in DOMAIN cache'
            /\ cache'[h] = [file |-> out, access_count |-> before + 1]
            /\ download_metrics'.success = download_metrics.success + 1
            /\ download_metrics'.total_time =
                 download_metrics.total_time + c.elapsed
            /\ download_metrics'.total_size =
                 download_metrics.total_size + disk[out].len
            /\ download_metrics'.failures = download_metrics.failures
            /\ Len(transaction_log') = Len(transaction_log) + 1
            /\ last.action = "complete_download"
            /\ last.info = h
            /\ call'[w].ret = "true"]_vars


\* C22: the step of a call whose artifact passed validation but yields no
\* digest appends rollback_download with the reason "hash computation failed"
\* and then fail_download, changes no file (the artifact stays under its
\* final name), adds no cache entry, leaves the success counter alone, counts
\* one failure and returns false.
C22_ChecksumFailure ==
  [][\A w \in Workers :
       (call[w].pc = "hash" /\ call'[w].pc = "returned") =>
         LET n == Len(transaction_log)
         IN /\ Len(transaction_log') = n + 2
            /\ SubSeq(transaction_log', 1, n) = transaction_log
            /\ transaction_log'[n + 1].action = "rollback_download"
            /\ transaction_log'[n + 1].info = "hash computation failed"
            /\ transaction_log'[n + 1].timestamp = call[w].id
            /\ transaction_log'[n + 2].action = "fail_download"
            /\ transaction_log'[n + 2].timestamp = call[w].id
            /\ disk' = disk
            /\ cache' = cache
            /\ download_metrics'.success = download_metrics.success
            /\ download_metrics'.failures = download_metrics.failures + 1
            /\ call'[w].ret = "false"]_vars

\* a call has returned false after its valid artifact became unreadable: the
\* file is still there under its final name, the log ends with the rollback
\* for the failed hash and fail_download, the cache is empty
C22_Witness ==
  \E w \in Workers :
    LET c == call[w]
        out == OutputFile(c.dataset, c.month)
        n == Len(transaction_log)
    IN /\ c.pc = "returned"
       /\ c.ret = "false"
       /\ c.valid = "true"
       /\ disk[out].exists
       /\ ~disk[out].readable
       /\ n >= 2
       /\ transaction_log[n - 1].info = "hash computation failed"
       /\ transaction_log[n].action = "fail_download"
       /\ cache = <<>>


\* C23: a call for a configured dataset that has returned without hitting the
\* cache has recorded exactly one start_download and has invoked its strategy
\* exactly once; and whenever no call is under way the response-time series
\* holds one entry for every start_download record.
C23_FetchStep ==
  LET starts(id) == {n \in DOMAIN transaction_log :
                       /\ transaction_log[n].action = "start_download"
                       /\ transaction_log[n].timestamp = id}
      allStarts == {n \in DOMAIN transaction_log :
                      transaction_log[n].action = "start_download"}
  IN /\ \A w \in Workers :
          (/\ call[w].pc = "returned"
           /\ call[w].dataset \in {"era5", "modis_snow", "goes16", "gpm"}
           /\ ~call[w].hit)
          => /\ Cardinality(starts(call[w].id)) = 1
             /\ call[w].attempts = 1
     /\ (\A w \in Workers : call[w].pc \in {"idle", "returned"})
          => Len(download_metrics.response_times) = Cardinality(allStarts)


-----------------------------------------------------------------------------
(* The calls of one batch, under SpecRace *)

\* C24: once the two calls of the batch have returned, each counter holds
\* the amounts of the calls that updated it, less one amount for every store
\* that wrote back a value read before the other call's store: an update that
\* overlaps another one is lost, so the counter is then smaller than the
\* number of work items that updated it.
C24_LostUpdate ==
  (\A w \in {1, 2} : call[w].pc = "returned") =>
    LET good == {w \in {1, 2} : call[w].ret = "true"}
        bad == {w \in {1, 2} : call[w].ret = "false"}
        kept(ws, k) == Cardinality(ws) - Cardinality({w \in ws : k \in call[w].lost})
    IN /\ download_metrics.success = kept(good, "success")
       /\ download_metrics.total_time = 2 * kept(good, "total_time")
       /\ download_metrics.total_size = kept(good, "total_size")
       /\ download_metrics.failures = kept(bad, "failures")
       /\ Len(download_metrics.response_times) = 2

\* both calls have completed their downloads, both complete_download records
\* are in the log and both digests in the cache, and the success counter is 1
C24_Witness ==
  /\ \A w \in {1, 2} : call[w].pc = "returned" /\ call[w].ret = "true"
  /\ Cardinality({n \in DOMAIN transaction_log :
                    transaction_log[n].action = "complete_download"}) = 2
  /\ Cardinality(DOMAIN cache) = 2
  /\ download_metrics.success = 1

\* both calls have failed and the failure counter is 1
C24_WitnessFailures ==
  /\ \A w \in {1, 2} : call[w].pc = "returned" /\ call[w].ret = "false"
  /\ download_metrics.failures = 1


-----------------------------------------------------------------------------
(* The chunk writes of Downloader.download, under SpecDownload *)

\* C25: while a call of download writes, the chunks written so far are those
\* of the ranges 1, 2, ... in this order, whichever fetch completed last, and
\* every fetch has succeeded; and a temporary file changes only in a step of a
\* call all of whose chunk fetches succeeded.
C25_ChunkWriteOrder ==
  /\ [](\A w \in Workers :
          dl[w].pc = "write" =>
            /\ dl[w].wrote = [k \in 1..dl[w].written |-> k]
            /\ dl[w].written = Len(dl[w].wrote)
            /\ \A k \in DOMAIN dl[w].ranges : dl[w].got[k] = "ok")
  /\ [][\A p \in DownloadPaths :
          disk'[TempFile(p)] # disk[TempFile(p)] =>
            \E w \in Workers :
              /\ dl[w].output_file = p
              /\ dl[w].ranges # <<>>
              /\ \A k \in DOMAIN dl[w].ranges : dl[w].got[k] = "ok"]_vars

\* three chunks have been written in the order 1, 2, 3 although the fetch of
\* the first range was the last to complete
C25_Witness ==
  \E w \in Workers :
    /\ dl[w].pc = "write"
    /\ Len(dl[w].ranges) = 3
    /\ dl[w].last = 1
    /\ dl[w].wrote = <<1, 2, 3>>


-----------------------------------------------------------------------------
(* The Optimizer in download_all, under SpecRun *)

\* C26: during a run the history of the Optimizer has one row for every work
\* item that has completed.
C26_OptimizerFeedback ==
  Len(optimizer.historical_data) =
    Cardinality({k \in DOMAIN run.futures : run.futures[k].state = "done"})


-----------------------------------------------------------------------------
(* The regression branch of predict_workers, under SpecOptimizer *)

\* C27 as stated: with more than ten rows of history, response times and the
\* load sensors answering, the result is round(prediction * 3) cut to 1..5,
\* a half rounded to the even neighbour.
C27_RoundedPrediction ==
  (/\ optimizer.predicted.made
   /\ optimizer.predicted.psutil_ok
   /\ optimizer.predicted.history > 10
   /\ optimizer.predicted.response_times # <<>>)
  => LET x == optimizer.predicted.pred * 3
         m == IF x >= 0 THEN x ELSE 0 - x
         q == m \div 100
         r == m % 100
         n == IF r > 50 \/ (r = 50 /\ q % 2 = 1) THEN q + 1 ELSE q
         rounded == IF x >= 0 THEN n ELSE 0 - n
     IN optimizer.predicted.workers =
          IF rounded < 1 THEN 1 ELSE IF rounded > 5 THEN 5 ELSE rounded

\* C27, amended: with more than ten rows of history, response times and the
\* load sensors answering, the result is int(prediction * 3), the product cut
\* off towards zero, cut to 1..5: a prediction of 0.5 gives 1 and one of 1.66
\* gives 4.
C27_TruncatedPrediction ==
  (/\ optimizer.predicted.made
   /\ optimizer.predicted.psutil_ok
   /\ optimizer.predicted.history > 10
   /\ optimizer.predicted.response_times # <<>>)
  => LET x == optimizer.predicted.pred * 3
         t == IF x >= 0 THEN x \div 100 ELSE 0 - ((0 - x) \div 100)
     IN optimizer.predicted.workers =
          IF t < 1 THEN 1 ELSE IF t > 5 THEN 5 ELSE t

\* a prediction of 0.5 on a history of eleven rows gives one worker
C27_Witness ==
  /\ optimizer.predicted.made
  /\ optimizer.predicted.psutil_ok
  /\ optimizer.predicted.history > 10
  /\ optimizer.predicted.response_times # <<>>
  /\ optimizer.predicted.pred = 50
  /\ optimizer.predicted.workers = 1


-----------------------------------------------------------------------------
(* Invariants of the Pipeline state, under Spec *)

\* C28: every key of the cache is the digest of a valid artifact for which
\* some call has recorded complete_download with that digest, its access
\* count is at least 1, and no step removes a key or lowers an access count.
C28_CacheInvariant ==
  /\ [](\A h \in DOMAIN cache :
          /\ cache[h].access_count >= 1
          /\ h[1] = "good"
          /\ \E n \in DOMAIN transaction_log :
               /\ transaction_log[n].action = "complete_download"
               /\ transaction_log[n].info = h)
  /\ [][\A h \in DOMAIN cache :
          /\ h \in DOMAIN cache'
          /\ cache'[h].access_count >= cache[h].access_count]_vars


\* C29: no step changes or removes a record of the transaction log; a call
\* that is under way has a start_download and no terminal record; a call that
\* has returned has no record at all or one start_download followed by
\* exactly one terminal record, complete_download or fail_download; a
\* rollback_download is followed by the fail_download of its call, which has
\* no complete_download; and a returned call for a configured dataset has
\* returned true exactly when it hit the cache or recorded complete_download.
C29_TransactionProtocol ==
  /\ [][/\ Len(transaction_log') >= Len(transaction_log)
         /\ SubSeq(transaction_log', 1, Len(transaction_log))
              = transaction_log]_vars
  /\ [](LET tl == transaction_log
            at(id, actions) == {n \in DOMAIN tl : /\ tl[n].timestamp = id
                                                   /\ tl[n].action \in actions}
            terminal == {"complete_download", "fail_download"}
            running == {call[w].id : w \in {v \in Workers :
                                               call[v].pc \notin {"idle", "returned"}}}
        IN /\ \A id \in 1..ncalls :
                IF id \in running
                  THEN /\ Cardinality(at(id, {"start_download"})) = 1
                       /\ at(id, terminal) = {}
                  ELSE /\ Cardinality(at(id, {"start_download"})) <= 1
                       /\ Cardinality(at(id, terminal)) =
                            Cardinality(at(id, {"start_download"}))
                       /\ \A s \in at(id, {"start_download"}) :
                            \A t \in at(id, terminal) : s < t
                       /\ at(id, {"rollback_download"}) # {} =>
                            /\ at(id, {"complete_download"}) = {}
                            /\ \A r \in at(id, {"rollback_download"}) :
                                 \E t \in at(id, {"fail_download"}) : r < t
           /\ \A w \in Workers :
                (/\ call[w].pc = "returned"
                 /\ call[w].dataset \in {"era5", "modis_snow", "goes16", "gpm"})
                => /\ \/ call[w].hit
                      \/ Cardinality(at(call[w].id, {"start_download"})) = 1
                   /\ call[w].ret = "true" <=>
                        \/ call[w].hit
                        \/ at(call[w].id, {"complete_download"}) # {})

\* a call whose artifact failed validation has returned false: its records
\* are start_download, rollback_download, fail_download
C29_Witness ==
  \E w \in Workers :
    LET n == Len(transaction_log)
    IN /\ call[w].pc = "returned"
       /\ call[w].ret = "false"
       /\ call[w].valid = "false"
       /\ n >= 3
       /\ transaction_log[n - 2].action = "start_download"
       /\ transaction_log[n - 1].action = "rollback_download"
       /\ transaction_log[n].action = "fail_download"
       /\ \A k \in {n - 2, n - 1, n} : transaction_log[k].timestamp = call[w].id


\* C30: whenever no call is under way, the success counter is the number of
\* complete_download records, the failure counter is at most the number of
\* fail_download records, success + failures is at most the length of the
\* response-time series, which is at most the number of start_download
\* records; and a step that ends a call as a cache hit changes neither the
\* metrics nor the cache nor the transaction log.
C30_MetricsLogConsistency ==
  /\ []((\A w \in Workers : call[w].pc \in {"idle", "returned"}) =>
          LET count(action) ==
                Cardinality({n \in DOMAIN transaction_log :
                               transaction_log[n].action = action})
              dm == download_metrics
          IN /\ dm.success = count("complete_download")
             /\ dm.failures <= count("fail_download")
             /\ dm.success + dm.failures <= Len(dm.response_times)
             /\ Len(dm.response_times) <= count("start_download"))
  /\ [][\A w \in Workers :
          (call'[w] # call[w] /\ call'[w].hit) =>
            /\ download_metrics' = download_metrics
            /\ cache' = cache
            /\ transaction_log' = transaction_log]_vars

====
